---- MODULE Spec2Model ----
(***************************************************************************)
(* Darwin: import extraction (Python, JS/TS), package identity resolution, *)
(* deduplication and Python usage tracking, modelled from the TypeScript   *)
(* sources.  Texts are TLA+ strings; offsets are 0-based as in JavaScript. *)
(***************************************************************************)
EXTENDS Integers, Sequences, FiniteSets, TLC

VARIABLES languageId, text, pc, lineIndex, imports, errors, result, usages, scanned, lines,
          queryPath, resolved, docs, history, nextId, mig, undo, scan

parserVars ==
  <<languageId, text, pc, lineIndex, imports, errors, result, usages, scanned, lines,
    queryPath, resolved>>

vars == <<parserVars, docs, history, nextId, mig, undo, scan>>

(***************************************************************************)
(* Bounds of the model.                                                    *)
(***************************************************************************)
MaxFragments == 2

MaxJsLines == 2

MaxSegments == 3

(***************************************************************************)
(* Optional values: undefined is <<>>, a defined value v is <<v>>.         *)
(***************************************************************************)
Undefined == <<>>

Some(v) == <<v>>

IsDefined(o) == Len(o) = 1

(***************************************************************************)
(* JavaScript string primitives.                                           *)
(***************************************************************************)
CharAt(s, i) == IF i >= 0 /\ i < Len(s) THEN SubSeq(s, i + 1, i + 1) ELSE ""

Min2(a, b) == IF a < b THEN a ELSE b

Max2(a, b) == IF a > b THEN a ELSE b

Substring(s, a, b) ==
  LET lo == Max2(0, Min2(Min2(a, b), Len(s)))
      hi == Max2(0, Min2(Max2(a, b), Len(s)))
  IN  IF lo >= hi THEN "" ELSE SubSeq(s, lo + 1, hi)

StartsWith(s, p) == Len(p) <= Len(s) /\ Substring(s, 0, Len(p)) = p

EndsWith(s, p) == Len(p) <= Len(s) /\ Substring(s, Len(s) - Len(p), Len(s)) = p

RECURSIVE IndexOfFrom(_, _, _)
IndexOfFrom(s, p, from) ==
  IF from + Len(p) > Len(s) THEN -1
  ELSE IF Substring(s, from, from + Len(p)) = p THEN from
  ELSE IndexOfFrom(s, p, from + 1)

IndexOf(s, p) == IndexOfFrom(s, p, 0)

Includes(s, p) == IndexOf(s, p) # -1

RECURSIVE LastIndexOfFrom(_, _, _)
LastIndexOfFrom(s, p, from) ==
  IF from < 0 THEN -1
  ELSE IF from + Len(p) <= Len(s) /\ Substring(s, from, from + Len(p)) = p THEN from
  ELSE LastIndexOfFrom(s, p, from - 1)

(* String.prototype.lastIndexOf clamps a negative fromIndex to 0. *)
LastIndexOf(s, p, from) == LastIndexOfFrom(s, p, Max2(0, from))

WhiteSpace == {" ", "\t", "\n", "\r"}

WordChars ==
  {"a", "b", "c", "d", "e", "f", "g", "h", "i", "j", "k", "l", "m", "n", "o", "p",
   "q", "r", "s", "t", "u", "v", "w", "x", "y", "z",
   "A", "B", "C", "D", "E", "F", "G", "H", "I", "J", "K", "L", "M", "N", "O", "P",
   "Q", "R", "S", "T", "U", "V", "W", "X", "Y", "Z",
   "0", "1", "2", "3", "4", "5", "6", "7", "8", "9", "_"}

RECURSIVE TrimStart(_)
TrimStart(s) ==
  IF Len(s) > 0 /\ CharAt(s, 0) \in WhiteSpace THEN TrimStart(Substring(s, 1, Len(s))) ELSE s

RECURSIVE TrimEnd(_)
TrimEnd(s) ==
  IF Len(s) > 0 /\ CharAt(s, Len(s) - 1) \in WhiteSpace
  THEN TrimEnd(Substring(s, 0, Len(s) - 1)) ELSE s

Trim(s) == TrimEnd(TrimStart(s))

RECURSIVE Split(_, _)
Split(s, sep) ==
  LET k == IndexOf(s, sep)
  IN  IF k = -1 THEN <<s>>
      ELSE <<Substring(s, 0, k)>> \o Split(Substring(s, k + Len(sep), Len(s)), sep)

RECURSIVE Join(_, _)
Join(parts, sep) ==
  IF Len(parts) = 0 THEN ""
  ELSE IF Len(parts) = 1 THEN parts[1]
  ELSE parts[1] \o sep \o Join(Tail(parts), sep)

Slice(seq, a, b) == SubSeq(seq, a + 1, b)

RECURSIVE RemoveChars(_, _)
RemoveChars(s, cs) ==
  IF Len(s) = 0 THEN ""
  ELSE (IF CharAt(s, 0) \in cs THEN "" ELSE CharAt(s, 0))
       \o RemoveChars(Substring(s, 1, Len(s)), cs)

(***************************************************************************)
(* Regular expressions, with the backtracking order of the JavaScript      *)
(* engine: a pattern is a sequence of nodes; Match tries the alternatives  *)
(* of the first node in priority order (greedy quantifiers longest first)  *)
(* and returns the first way the whole sequence matches.                   *)
(***************************************************************************)
Lit(str) == [t |-> "lit", s |-> str]

One(set) == [t |-> "one", cls |-> set, neg |-> FALSE]

Plus(set) == [t |-> "rep", cls |-> set, neg |-> FALSE, min |-> 1]

Star(set) == [t |-> "rep", cls |-> set, neg |-> FALSE, min |-> 0]

PlusNot(set) == [t |-> "rep", cls |-> set, neg |-> TRUE, min |-> 1]

Opt(nodes) == [t |-> "opt", body |-> nodes]

Alt(a, b) == [t |-> "alt", left |-> a, right |-> b]

Group(k, nodes) == <<[t |-> "open", g |-> k]>> \o nodes \o <<[t |-> "close", g |-> k]>>

Bol == [t |-> "bol"]

WordBoundary == [t |-> "wb"]

NotBehind(set) == [t |-> "nbehind", cls |-> set]

Ahead(nodes) == [t |-> "ahead", body |-> nodes]

Eos == [t |-> "eos"]

MaxGroups == 4

NoCaps == [g \in 1..MaxGroups |-> Undefined]

NoOpens == [g \in 1..MaxGroups |-> 0]

Fail == [ok |-> FALSE, index |-> 0, end |-> 0, caps |-> NoCaps]

InClass(c, set, neg) == c # "" /\ ((c \in set) # neg)

RECURSIVE RunLength(_, _, _, _)
RunLength(s, i, set, neg) ==
  IF InClass(CharAt(s, i), set, neg) THEN 1 + RunLength(s, i + 1, set, neg) ELSE 0

IsWordAt(s, i) == CharAt(s, i) \in WordChars

RECURSIVE Match(_, _, _, _, _)
Match(nodes, s, i, opens, caps) ==
  IF Len(nodes) = 0 THEN [ok |-> TRUE, index |-> 0, end |-> i, caps |-> caps]
  ELSE
    LET n == Head(nodes)
        rest == Tail(nodes)
    IN  CASE n.t = "lit" ->
               IF Substring(s, i, i + Len(n.s)) = n.s /\ i + Len(n.s) <= Len(s)
               THEN Match(rest, s, i + Len(n.s), opens, caps) ELSE Fail
          [] n.t = "one" ->
               IF InClass(CharAt(s, i), n.cls, n.neg)
               THEN Match(rest, s, i + 1, opens, caps) ELSE Fail
          [] n.t = "rep" ->
               Match(<<[t |-> "repk", min |-> n.min,
                        k |-> RunLength(s, i, n.cls, n.neg)]>> \o rest,
                     s, i, opens, caps)
          [] n.t = "repk" ->
               IF n.k < n.min THEN Fail
               ELSE LET r == Match(rest, s, i + n.k, opens, caps)
                    IN  IF r.ok THEN r
                        ELSE Match(<<[n EXCEPT !.k = n.k - 1]>> \o rest, s, i, opens, caps)
          [] n.t = "opt" ->
               LET r == Match(n.body \o rest, s, i, opens, caps)
               IN  IF r.ok THEN r ELSE Match(rest, s, i, opens, caps)
          [] n.t = "alt" ->
               LET r == Match(n.left \o rest, s, i, opens, caps)
               IN  IF r.ok THEN r ELSE Match(n.right \o rest, s, i, opens, caps)
          [] n.t = "open" ->
               Match(rest, s, i, [opens EXCEPT ![n.g] = i], caps)
          [] n.t = "close" ->
               Match(rest, s, i, opens,
                     [caps EXCEPT ![n.g] = Some(Substring(s, opens[n.g], i))])
          [] n.t = "bol" ->
               IF i = 0 THEN Match(rest, s, i, opens, caps) ELSE Fail
          [] n.t = "eos" ->
               IF i = Len(s) THEN Match(rest, s, i, opens, caps) ELSE Fail
          [] n.t = "wb" ->
               IF IsWordAt(s, i - 1) # IsWordAt(s, i)
               THEN Match(rest, s, i, opens, caps) ELSE Fail
          [] n.t = "nbehind" ->
               IF i > 0 /\ CharAt(s, i - 1) \in n.cls THEN Fail
               ELSE Match(rest, s, i, opens, caps)
          [] n.t = "ahead" ->
               IF Match(n.body, s, i, opens, caps).ok
               THEN Match(rest, s, i, opens, caps) ELSE Fail

(* RegExp.prototype.exec from lastIndex: the leftmost match at or after it. *)
RECURSIVE Exec(_, _, _)
Exec(re, s, from) ==
  IF from > Len(s) \/ (from > 0 /\ Head(re).t = "bol") THEN Fail
  ELSE LET r == Match(re, s, from, NoOpens, NoCaps)
       IN  IF r.ok THEN [r EXCEPT !.index = from] ELSE Exec(re, s, from + 1)

(* The loop `while ((match = regex.exec(text)) !== null)` of a /g regex. *)
RECURSIVE ExecAll(_, _, _)
ExecAll(re, s, from) ==
  LET r == Exec(re, s, from)
  IN  IF ~r.ok THEN <<>>
      ELSE <<r>> \o ExecAll(re, s, IF r.end = r.index THEN r.end + 1 ELSE r.end)

MatchText(s, m) == Substring(s, m.index, m.end)

(* parts[0] of s.split(re): the text before the first match of re. *)
SplitFirst(s, re) ==
  LET m == Exec(re, s, 0)
  IN  IF m.ok /\ m.end > m.index THEN Substring(s, 0, m.index) ELSE s

(***************************************************************************)
(* BaseParser                                                              *)
(***************************************************************************)
(* isRelativeImport testing the `.` prefix alone. *)
isRelativeImportDotOnly(packageName) == StartsWith(packageName, ".")

isRelativeImport(packageName) == StartsWith(packageName, ".") \/ StartsWith(packageName, "/")

(* getTopLevelPackage cutting at a `/` in first position as well. *)
getTopLevelPackageAnySlash(importPath) ==
  IF StartsWith(importPath, "@")
  THEN LET parts == Split(importPath, "/")
       IN  IF Len(parts) >= 2 THEN parts[1] \o "/" \o parts[2] ELSE importPath
  ELSE LET slashIndex == IndexOf(importPath, "/")
       IN  IF slashIndex >= 0 THEN Substring(importPath, 0, slashIndex) ELSE importPath

(* getTopLevelPackage dropping the `@` of a scoped package. *)
getTopLevelPackageUnscoped(importPath) ==
  IF StartsWith(importPath, "@")
  THEN LET parts == Split(importPath, "/")
       IN  IF Len(parts) >= 2
           THEN Substring(parts[1], 1, Len(parts[1])) \o "/" \o parts[2]
           ELSE importPath
  ELSE LET slashIndex == IndexOf(importPath, "/")
       IN  IF slashIndex > 0 THEN Substring(importPath, 0, slashIndex) ELSE importPath

getTopLevelPackage(importPath) ==
  IF StartsWith(importPath, "@")
  THEN LET parts == Split(importPath, "/")
       IN  IF Len(parts) >= 2 THEN parts[1] \o "/" \o parts[2] ELSE importPath
  ELSE LET slashIndex == IndexOf(importPath, "/")
       IN  IF slashIndex > 0 THEN Substring(importPath, 0, slashIndex) ELSE importPath

createRange(startLine, startChar, endLine, endChar) ==
  [sl |-> startLine, sc |-> startChar, el |-> endLine, ec |-> endChar]

(***************************************************************************)
(* PythonParser                                                            *)
(***************************************************************************)
WordDot == WordChars \cup {"."}

LineTerminators == {"\n", "\r"}

AsSeparator == <<Plus(WhiteSpace), Lit("as"), Plus(WhiteSpace)>>

IMPORT_REGEX ==
  <<Bol, Lit("import"), Plus(WhiteSpace)>> \o Group(1, <<Plus(WordDot)>>)
    \o <<Opt(<<Plus(WhiteSpace), Lit("as"), Plus(WhiteSpace), Plus(WordChars)>>)>>

FROM_IMPORT_REGEX ==
  <<Bol, Lit("from"), Plus(WhiteSpace)>> \o Group(1, <<Plus(WordDot)>>)
    \o <<Plus(WhiteSpace), Lit("import"), Plus(WhiteSpace)>>
    \o Group(2, <<PlusNot(LineTerminators)>>)

MULTI_IMPORT_REGEX ==
  <<Bol, Lit("import"), Plus(WhiteSpace)>>
    \o Group(1, <<Plus(WordChars \cup {".", ","} \cup WhiteSpace)>>)

(* lines[i] of the code, whose indices start at 0. *)
Line(i) == lines[i + 1]

getLineRange(i) == createRange(i, 0, i, Len(Line(i)))

PyImport(packageName, importStatement, range, namedImports) ==
  [packageName |-> packageName, importStatement |-> importStatement,
   language |-> "python", range |-> range, namedImports |-> namedImports,
   isDefaultImport |-> Undefined, isRequire |-> Undefined]

(* The binding name taken after the `as` instead of before it. *)
NamedImportNameAlias(item) ==
  LET name == Trim(item)
      m == Exec(AsSeparator, name, 0)
  IN  IF m.ok THEN Trim(Substring(name, m.end, Len(name))) ELSE name

NamedImportName(item) == Trim(SplitFirst(Trim(item), AsSeparator))

RECURSIVE MapNamedImportName(_)
MapNamedImportName(items) ==
  IF Len(items) = 0 THEN <<>>
  ELSE <<NamedImportName(Head(items))>> \o MapNamedImportName(Tail(items))

KeepPyNamed(name) == name # "" /\ name # "*"

PyParseNamedImports(content) ==
  SelectSeq(MapNamedImportName(Split(RemoveChars(content, {"(", ")"}), ",")), KeepPyNamed)

(* The parenthesis continuation loop of parseFromImport. *)
RECURSIVE ParenContinuation(_, _)
ParenContinuation(endLine, importContent) ==
  IF endLine < Len(lines) - 1 /\ ~Includes(Line(endLine), ")")
  THEN ParenContinuation(endLine + 1, importContent \o " " \o Trim(Line(endLine + 1)))
  ELSE [endLine |-> endLine, importContent |-> importContent]

(* The backslash continuation loop of parseFromImport. *)
RECURSIVE BackslashContinuation(_, _)
BackslashContinuation(endLine, importContent) ==
  IF EndsWith(TrimEnd(Line(endLine)), "\\") /\ endLine < Len(lines) - 1
  THEN BackslashContinuation(endLine + 1, importContent \o " " \o Trim(Line(endLine + 1)))
  ELSE [endLine |-> endLine, importContent |-> importContent]

(* parseFromImport resuming on the line after the `from` line whatever it  *)
(* consumed.                                                               *)
parseFromImportOneLine(match, startLine) ==
  LET packagePath == match.caps[1][1]
      first == [endLine |-> startLine, importContent |-> match.caps[2][1]]
      paren == IF Includes(first.importContent, "(") /\ ~Includes(first.importContent, ")")
               THEN ParenContinuation(first.endLine, first.importContent)
               ELSE first
      last == BackslashContinuation(paren.endLine, paren.importContent)
      endLine == last.endLine
  IN  IF StartsWith(packagePath, ".")
      THEN [import |-> Undefined, nextLineIndex |-> startLine + 1]
      ELSE [import |->
              Some(PyImport(packagePath,
                            Join(Slice(lines, startLine, endLine + 1), "\n"),
                            createRange(startLine, 0, endLine, Len(Line(endLine))),
                            Some(PyParseNamedImports(last.importContent)))),
            nextLineIndex |-> startLine + 1]

parseFromImport(match, startLine) ==
  LET packagePath == match.caps[1][1]
      first == [endLine |-> startLine, importContent |-> match.caps[2][1]]
      paren == IF Includes(first.importContent, "(") /\ ~Includes(first.importContent, ")")
               THEN ParenContinuation(first.endLine, first.importContent)
               ELSE first
      last == BackslashContinuation(paren.endLine, paren.importContent)
      endLine == last.endLine
  IN  IF StartsWith(packagePath, ".")
      THEN [import |-> Undefined, nextLineIndex |-> startLine + 1]
      ELSE [import |->
              Some(PyImport(packagePath,
                            Join(Slice(lines, startLine, endLine + 1), "\n"),
                            createRange(startLine, 0, endLine, Len(Line(endLine))),
                            Some(PyParseNamedImports(last.importContent)))),
            nextLineIndex |-> endLine + 1]

MultiPackageName(p) == Trim(SplitFirst(Trim(p), AsSeparator))

RECURSIVE MapMultiPackageName(_)
MapMultiPackageName(items) ==
  IF Len(items) = 0 THEN <<>>
  ELSE <<MultiPackageName(Head(items))>> \o MapMultiPackageName(Tail(items))

KeepMultiPackage(packageName) == packageName # "" /\ ~isRelativeImport(packageName)

(* The packages of a multi-import line that pass the filter of the loop. *)
MultiPackages(match) ==
  SelectSeq(MapMultiPackageName(Split(match.caps[1][1], ",")), KeepMultiPackage)

parseMultiImport(match, i) ==
  LET packages == MultiPackages(match)
  IN  [k \in 1..Len(packages) |->
         PyImport(packages[k], Line(i), getLineRange(i), Undefined)]

RECURSIVE NatToString(_)
NatToString(n) ==
  IF n < 10 THEN SubSeq("0123456789", n + 1, n + 1)
  ELSE NatToString(n \div 10) \o SubSeq("0123456789", (n % 10) + 1, (n % 10) + 1)

(***************************************************************************)
(* JsTsParser                                                              *)
(***************************************************************************)
Quotes == {"'", "\""}

CommaSeparator == <<Star(WhiteSpace), Lit(","), Star(WhiteSpace)>>

ES6_IMPORT_REGEX ==
  <<Lit("import"), Plus(WhiteSpace),
    Opt(<<Opt(Group(1, <<Plus(WordChars)>>) \o <<Opt(CommaSeparator)>>),
          Opt(<<Lit("{")>> \o Group(2, <<PlusNot({"}"})>>) \o <<Lit("}")>>),
          Opt(CommaSeparator \o Group(3, <<Plus(WordChars)>>)),
          Plus(WhiteSpace), Lit("from"), Plus(WhiteSpace)>>),
    One(Quotes)>> \o Group(4, <<PlusNot(Quotes)>>) \o <<One(Quotes)>>

REQUIRE_REGEX ==
  <<Alt(<<Lit("const")>>, <<Alt(<<Lit("let")>>, <<Lit("var")>>)>>),
    Plus(WhiteSpace),
    Alt(Group(1, <<Plus(WordChars)>>),
        <<Lit("{")>> \o Group(2, <<PlusNot({"}"})>>) \o <<Lit("}")>>),
    Star(WhiteSpace), Lit("="), Star(WhiteSpace), Lit("require"), Star(WhiteSpace),
    Lit("("), Star(WhiteSpace), One(Quotes)>>
    \o Group(3, <<PlusNot(Quotes)>>)
    \o <<One(Quotes), Star(WhiteSpace), Lit(")")>>

DYNAMIC_IMPORT_REGEX ==
  <<Lit("import"), Star(WhiteSpace), Lit("("), Star(WhiteSpace), One(Quotes)>>
    \o Group(1, <<PlusNot(Quotes)>>)
    \o <<One(Quotes), Star(WhiteSpace), Lit(")")>>

REEXPORT_REGEX ==
  <<Lit("export"), Plus(WhiteSpace),
    Alt(<<Lit("*")>>, <<Lit("{"), PlusNot({"}"}), Lit("}")>>),
    Plus(WhiteSpace), Lit("from"), Plus(WhiteSpace), One(Quotes)>>
    \o Group(1, <<PlusNot(Quotes)>>) \o <<One(Quotes)>>

getLanguage ==
  IF languageId = "python" THEN "python"
  ELSE IF languageId \in {"typescript", "typescriptreact"} THEN "typescript"
  ELSE "javascript"

(* TextDocument.positionAt and the Range built from two positions. *)
positionAt(txt, offset) ==
  LET nl == IF offset = 0 THEN -1 ELSE LastIndexOfFrom(txt, "\n", offset - 1)
      before == Substring(txt, 0, offset)
  IN  [line |-> Len(Split(before, "\n")) - 1, character |-> offset - (nl + 1)]

OffsetRange(txt, from, to) ==
  createRange(positionAt(txt, from).line, positionAt(txt, from).character,
              positionAt(txt, to).line, positionAt(txt, to).character)

JsNamedImportName(item) == Trim(SplitFirst(Trim(item), AsSeparator))

RECURSIVE MapJsNamedImportName(_)
MapJsNamedImportName(items) ==
  IF Len(items) = 0 THEN <<>>
  ELSE <<JsNamedImportName(Head(items))>> \o MapJsNamedImportName(Tail(items))

KeepJsNamed(name) == Len(name) > 0

JsParseNamedImports(namedImportsStr) ==
  SelectSeq(MapJsNamedImportName(Split(namedImportsStr, ",")), KeepJsNamed)

JsImport(match, modulePath, namedImportsStr, isDefault, isReq) ==
  [packageName |-> getTopLevelPackage(modulePath),
   importStatement |-> MatchText(text, match),
   language |-> getLanguage,
   range |-> OffsetRange(text, match.index, match.end),
   namedImports |-> IF IsDefined(namedImportsStr) /\ namedImportsStr[1] # ""
                    THEN Some(JsParseNamedImports(namedImportsStr[1])) ELSE Undefined,
   isDefaultImport |-> isDefault,
   isRequire |-> Some(isReq)]

ES6Record(m) ==
  JsImport(m, m.caps[4][1], m.caps[2],
           Some((IsDefined(m.caps[1]) /\ m.caps[1][1] # "")
                \/ (IsDefined(m.caps[3]) /\ m.caps[3][1] # "")), FALSE)

RequireRecord(m) ==
  JsImport(m, m.caps[3][1], m.caps[2],
           Some(IsDefined(m.caps[1]) /\ m.caps[1][1] # ""), TRUE)

DynamicRecord(m) == JsImport(m, m.caps[1][1], Undefined, Undefined, FALSE)

ReexportRecord(m) == JsImport(m, m.caps[1][1], Undefined, Undefined, FALSE)

(* One pass: every match of the regex whose module path (capture group     *)
(* pathGroup) is not relative becomes a record, in match order.            *)
RECURSIVE PassRecords(_, _, _)
PassRecords(matches, pathGroup, kind) ==
  IF Len(matches) = 0 THEN <<>>
  ELSE LET m == Head(matches)
       IN  (IF isRelativeImport(m.caps[pathGroup][1]) THEN <<>>
            ELSE <<CASE kind = "es6" -> ES6Record(m)
                     [] kind = "require" -> RequireRecord(m)
                     [] kind = "dynamic" -> DynamicRecord(m)
                     [] kind = "reexport" -> ReexportRecord(m)>>)
           \o PassRecords(Tail(matches), pathGroup, kind)

parseES6Imports == PassRecords(ExecAll(ES6_IMPORT_REGEX, text, 0), 4, "es6")

parseRequires == PassRecords(ExecAll(REQUIRE_REGEX, text, 0), 3, "require")

parseDynamicImports == PassRecords(ExecAll(DYNAMIC_IMPORT_REGEX, text, 0), 1, "dynamic")

parseReexports == PassRecords(ExecAll(REEXPORT_REGEX, text, 0), 1, "reexport")

(* deduplicateImports overwriting the Map entry: the last record of each   *)
(* packageName is kept.                                                    *)
RECURSIVE deduplicateImportsLastWins(_)
deduplicateImportsLastWins(imps) ==
  IF Len(imps) = 0 THEN <<>>
  ELSE LET rest == deduplicateImportsLastWins(Tail(imps))
       IN  IF \E k \in 1..Len(rest) : rest[k].packageName = Head(imps).packageName
           THEN rest ELSE <<Head(imps)>> \o rest

(* The Map `seen` keeps the first record of each packageName, and          *)
(* Array.from(seen.values()) lists them in insertion order.                *)
RECURSIVE deduplicateImports(_)
deduplicateImports(imps) ==
  IF Len(imps) = 0 THEN <<>>
  ELSE LET front == deduplicateImports(SubSeq(imps, 1, Len(imps) - 1))
           imp == imps[Len(imps)]
       IN  IF \E k \in 1..Len(front) : front[k].packageName = imp.packageName
           THEN front ELSE Append(front, imp)

(***************************************************************************)
(* PythonUsageTracker                                                      *)
(***************************************************************************)
ALIAS_REGEX ==
  <<Lit("import"), Plus(WhiteSpace), Plus(WordDot), Plus(WhiteSpace), Lit("as"),
    Plus(WhiteSpace)>> \o Group(1, <<Plus(WordChars)>>)

(* escapeRegex makes every character of str literal. *)
escapeRegex(str) == Lit(str)

NamedAliasRegex(namedImport) ==
  <<WordBoundary, escapeRegex(namedImport), Plus(WhiteSpace), Lit("as"),
    Plus(WhiteSpace)>> \o Group(1, <<Plus(WordChars)>>)

NamedIdentifier(importInfo, namedImport) ==
  LET namedAliasMatch == Exec(NamedAliasRegex(namedImport), importInfo.importStatement, 0)
  IN  IF namedAliasMatch.ok THEN namedAliasMatch.caps[1][1] ELSE namedImport

(* getIdentifiersFromImport without the alias branch: an aliased simple    *)
(* import is searched by the last dotted part of its package name.         *)
getIdentifiersFromImportNoAlias(importInfo) ==
  LET named == IF IsDefined(importInfo.namedImports) THEN importInfo.namedImports[1] ELSE <<>>
      parts == Split(importInfo.packageName, ".")
  IN  IF Len(named) > 0
      THEN [k \in 1..Len(named) |-> NamedIdentifier(importInfo, named[k])]
      ELSE <<parts[Len(parts)]>>

getIdentifiersFromImport(importInfo) ==
  LET aliasMatch == Exec(ALIAS_REGEX, importInfo.importStatement, 0)
      named == IF IsDefined(importInfo.namedImports) THEN importInfo.namedImports[1] ELSE <<>>
      parts == Split(importInfo.packageName, ".")
  IN  IF aliasMatch.ok THEN <<aliasMatch.caps[1][1]>>
      ELSE IF Len(named) > 0
      THEN [k \in 1..Len(named) |-> NamedIdentifier(importInfo, named[k])]
      ELSE <<parts[Len(parts)]>>

UsageContext ==
  {".", "(", "[", ",", ")", "]", ":", "}", "=", "+", "-", "*", "/", "<", ">", "!",
   "&", "|", "^", "%", "@"} \cup WhiteSpace

(* The usage pattern without its lookahead: whatever follows the           *)
(* identifier, the occurrence matches.                                     *)
UsagePatternNoLookahead(identifier) == <<NotBehind(WordChars), escapeRegex(identifier)>>

UsagePattern(identifier) ==
  <<NotBehind(WordChars), escapeRegex(identifier),
    Ahead(<<Star(WhiteSpace), One(UsageContext)>>)>>

(* vscode.Range.contains(range): start <= range.start and range.end <= end. *)
PositionLeq(l1, c1, l2, c2) == l1 < l2 \/ (l1 = l2 /\ c1 <= c2)

RangeContains(outer, inner) ==
  /\ PositionLeq(outer.sl, outer.sc, inner.sl, inner.sc)
  /\ PositionLeq(inner.el, inner.ec, outer.el, outer.ec)

(* isWithinImportStatement never holding: the declaration is searched like *)
(* the rest of the file.                                                   *)
isWithinImportStatementNever(range, importInfo) == FALSE

isWithinImportStatement(range, importInfo) == RangeContains(importInfo.range, range)

RECURSIVE CountOccurrences(_, _)
CountOccurrences(s, p) ==
  LET k == IndexOf(s, p)
  IN  IF k = -1 THEN 0 ELSE 1 + CountOccurrences(Substring(s, k + Len(p), Len(s)), p)

isWithinCommentOrString(position, txt) ==
  LET lineStart == LastIndexOf(txt, "\n", position - 1) + 1
      lineEnd == IndexOfFrom(txt, "\n", position)
      line == Substring(txt, lineStart, IF lineEnd = -1 THEN Len(txt) ELSE lineEnd)
      posInLine == position - lineStart
      commentStart == IndexOf(line, "#")
      beforePos == Substring(line, 0, posInLine)
      singleQuotes == CountOccurrences(beforePos, "'")
      doubleQuotes == CountOccurrences(beforePos, "\"")
      tripleDoubleQuotes == CountOccurrences(beforePos, "\"\"\"")
      tripleSingleQuotes == CountOccurrences(beforePos, "'''")
  IN  \/ commentStart # -1 /\ posInLine > commentStart
      \/ (singleQuotes - tripleSingleQuotes * 3) % 2 # 0
      \/ (doubleQuotes - tripleDoubleQuotes * 3) % 2 # 0

LowerCaseLetters == "abcdefghijklmnopqrstuvwxyz"

UpperCaseLetters == "ABCDEFGHIJKLMNOPQRSTUVWXYZ"

toUpperCase(c) ==
  LET k == IndexOf(LowerCaseLetters, c)
  IN  IF Len(c) = 1 /\ k # -1 THEN CharAt(UpperCaseLetters, k) ELSE c

toLowerCase(c) ==
  LET k == IndexOf(UpperCaseLetters, c)
  IN  IF Len(c) = 1 /\ k # -1 THEN CharAt(LowerCaseLetters, k) ELSE c

TRAILING_IDENTIFIER_REGEX == Group(1, <<Plus(WordChars)>>) \o <<Star(WhiteSpace), Eos>>

NextCharsLength == 10

PrevTextLength == 50

determineUsageType(txt, posAfterIdentifier) ==
  LET nextChars == Trim(Substring(txt, posAfterIdentifier,
                                  posAfterIdentifier + NextCharsLength))
      prevText == Substring(txt, Max2(0, posAfterIdentifier - PrevTextLength),
                            posAfterIdentifier)
      identifierMatch == Exec(TRAILING_IDENTIFIER_REGEX, prevText, 0)
      first == CharAt(identifierMatch.caps[1][1], 0)
  IN  IF StartsWith(nextChars, "(")
      THEN IF identifierMatch.ok /\ first = toUpperCase(first) /\ first # toLowerCase(first)
           THEN "class_instantiation" ELSE "function_call"
      ELSE IF StartsWith(nextChars, ".") THEN "attribute_access"
      ELSE "reference"

RECURSIVE UsageLocations(_, _, _)
UsageLocations(matches, identifier, importInfo) ==
  IF Len(matches) = 0 THEN <<>>
  ELSE LET m == Head(matches)
           range == OffsetRange(text, m.index, m.index + Len(identifier))
       IN  (IF \/ isWithinImportStatement(range, importInfo)
               \/ isWithinCommentOrString(m.index, text)
            THEN <<>>
            ELSE <<[range |-> range, identifier |-> identifier,
                    usageType |-> determineUsageType(text, m.index + Len(identifier))]>>)
           \o UsageLocations(Tail(matches), identifier, importInfo)

findIdentifierUsages(identifier, importInfo) ==
  IF Len(identifier) = 0 THEN <<>>
  ELSE UsageLocations(ExecAll(UsagePattern(identifier), text, 0), identifier, importInfo)

RECURSIVE LocationsOfIdentifiers(_, _)
LocationsOfIdentifiers(identifiers, importInfo) ==
  IF Len(identifiers) = 0 THEN <<>>
  ELSE findIdentifierUsages(Head(identifiers), importInfo)
       \o LocationsOfIdentifiers(Tail(identifiers), importInfo)

findUsagesForImport(importInfo) ==
  LocationsOfIdentifiers(getIdentifiersFromImport(importInfo), importInfo)

UsageInfo(importInfo, usageLocations) ==
  [importInfo |-> importInfo, usageLocations |-> usageLocations]

(* trackUsages without the test on usageLocations.length. *)
trackUsagesKeepsEmpty(imps) ==
  [k \in 1..Len(imps) |-> UsageInfo(imps[k], findUsagesForImport(imps[k]))]

RECURSIVE trackUsages(_)
trackUsages(imps) ==
  IF Len(imps) = 0 THEN <<>>
  ELSE LET usageLocations == findUsagesForImport(Head(imps))
       IN  (IF Len(usageLocations) > 0 THEN <<UsageInfo(Head(imps), usageLocations)>>
            ELSE <<>>)
           \o trackUsages(Tail(imps))

RECURSIVE TotalUsageCount(_)
TotalUsageCount(us) ==
  IF Len(us) = 0 THEN 0 ELSE Len(Head(us).usageLocations) + TotalUsageCount(Tail(us))

(***************************************************************************)
(* Documents.  A document is a language tag and a text; the Python texts   *)
(* are up to MaxFragments fragments of PyFragmentCorpus joined by          *)
(* newlines: single lines, and one from-import parenthesised over three.   *)
(***************************************************************************)
PyFragmentCorpus ==
  {"import os",
   "import os, b",
   "import a as x, b",
   "import .r",
   "from .m import (",
   "from m import (",
   "from m import (\n  a,\n  b as c)",
   "  a,",
   "  b as c)",
   "from m import a, b as c",
   "# import os",
   "",
   "from m import x \\",
   "os.f(c)"}

PyTexts ==
  {Join(doc, "\n") : doc \in UNION {[1..n -> PyFragmentCorpus] : n \in 1..MaxFragments}}

(* The JS/TS texts are up to MaxJsLines lines of JsLineCorpus. *)
JsLineCorpus ==
  {"import x from '@o/p/s'",
   "import {a, b as c} from 'l/m'",
   "import './side'",
   "const l = require('l')",
   "const {q} = require('/abs')",
   "import('./local')",
   "import('d')",
   "export * from 'l'",
   "export {e} from './rel'"}

JsTexts ==
  {Join(doc, "\n") : doc \in UNION {[1..n -> JsLineCorpus] : n \in 1..MaxJsLines}}

(* The language tags of the documents: the five getParser knows, and      *)
(* three it does not.  Every tag is tried on the texts of AnyTagTexts.     *)
LanguageIds ==
  {"python", "javascript", "typescript", "javascriptreact", "typescriptreact",
   "go", "plaintext", ""}

AnyTagTexts ==
  {"", "import os", "import('d')", "import x from '@o/p/s'", "import * as ns from 'pkg'"}

JsTsLanguageIds == {"javascript", "typescript", "javascriptreact", "typescriptreact"}

ParseResult(imps, errs) == [imports |-> imps, errors |-> errs]

NoResult == ParseResult(<<>>, <<>>)

(* The state before parseImports is called on a document. *)
(* No document open for migration, an empty history, no flow under way;   *)
(* no scan under way, nothing cached, nothing ignored.                     *)
NoMigrations ==
  [docs |-> <<>>,
   history |-> <<>>,
   nextId |-> 0,
   mig |-> [stage |-> "idle", kind |-> "", fileUri |-> "",
            range |-> createRange(0, 0, 0, 0), migratedCode |-> "",
            diffOpened |-> FALSE, choice |-> "", confidence |-> 0,
            customReplacement |-> "", showLowConfidenceWarnings |-> FALSE],
   undo |-> [stage |-> "idle", fileUri |-> "", entry |-> Undefined, returned |-> ""],
   scan |-> [stage |-> "idle", imports |-> <<>>, queue |-> <<>>, results |-> <<>>,
             diagnostics |-> {}, cache |-> <<>>, ignoredPackages |-> {}, now |-> 0]]

Idle ==
  /\ pc = "start"
  /\ lineIndex = 0
  /\ imports = <<>>
  /\ errors = <<>>
  /\ result = NoResult
  /\ usages = [usages |-> <<>>, totalUsageCount |-> 0]
  /\ scanned = <<>>
  /\ lines = <<>>
  /\ resolved = Undefined

Init ==
  /\ \/ languageId = "python" /\ text \in PyTexts
     \/ languageId = "typescript" /\ text \in JsTexts
     \/ languageId \in LanguageIds /\ text \in AnyTagTexts
  /\ queryPath = ""
  /\ Idle
  /\ docs = NoMigrations.docs
  /\ history = NoMigrations.history
  /\ nextId = NoMigrations.nextId
  /\ mig = NoMigrations.mig
  /\ undo = NoMigrations.undo
  /\ scan = NoMigrations.scan

(* parseImports whose switch falls through to the JS/TS parser. *)
parseImportsDefaultsToJsTs ==
  /\ pc = "start"
  /\ IF languageId = "python"
     THEN pc' = "py" /\ lines' = Split(text, "\n")
     ELSE pc' = "es6" /\ lines' = lines
  /\ UNCHANGED <<languageId, text, lineIndex, imports, errors, result, usages, scanned, queryPath, resolved,
               docs, history, nextId, mig, undo, scan>>

(***************************************************************************)
(* parseImports: getParser's switch on the language tag, then parse().     *)
(***************************************************************************)
parseImports ==
  /\ pc = "start"
  /\ IF languageId = "python"
     THEN pc' = "py" /\ lines' = Split(text, "\n") /\ result' = result
     ELSE IF languageId \in JsTsLanguageIds
     THEN pc' = "es6" /\ lines' = lines /\ result' = result
     ELSE /\ pc' = "done"
          /\ lines' = lines
          /\ result' = ParseResult(<<>>, <<"Unsupported language: " \o languageId>>)
  /\ UNCHANGED <<languageId, text, lineIndex, imports, errors, usages, scanned, queryPath, resolved,
               docs, history, nextId, mig, undo, scan>>

(***************************************************************************)
(* PythonParser.parse: one action per iteration of the while loop.         *)
(***************************************************************************)
CurrentLine == Trim(Line(lineIndex))

InLoop == pc = "py" /\ lineIndex < Len(lines)

IsSkipped(line) == line = "" \/ StartsWith(line, "#")

FromMatch == Exec(FROM_IMPORT_REGEX, CurrentLine, 0)

MultiMatch == Exec(MULTI_IMPORT_REGEX, CurrentLine, 0)

ImportMatch == Exec(IMPORT_REGEX, CurrentLine, 0)

(* The skip of a blank or comment line that leaves the cursor where it is. *)
PySkipLineStays ==
  /\ InLoop
  /\ IsSkipped(CurrentLine)
  /\ lineIndex' = lineIndex
  /\ scanned' = Append(scanned, lineIndex)
  /\ UNCHANGED <<languageId, text, pc, imports, errors, result, usages, lines, queryPath, resolved,
               docs, history, nextId, mig, undo, scan>>

PySkipLine ==
  /\ InLoop
  /\ IsSkipped(CurrentLine)
  /\ lineIndex' = lineIndex + 1
  /\ scanned' = Append(scanned, lineIndex)
  /\ UNCHANGED <<languageId, text, pc, imports, errors, result, usages, lines, queryPath, resolved,
               docs, history, nextId, mig, undo, scan>>

PyFromImport ==
  /\ InLoop
  /\ ~IsSkipped(CurrentLine)
  /\ FromMatch.ok
  /\ LET r == parseFromImport(FromMatch, lineIndex)
     IN  /\ imports' = IF IsDefined(r.import) THEN Append(imports, r.import[1]) ELSE imports
         /\ lineIndex' = r.nextLineIndex
  /\ scanned' = Append(scanned, lineIndex)
  /\ UNCHANGED <<languageId, text, pc, errors, result, usages, lines, queryPath, resolved,
               docs, history, nextId, mig, undo, scan>>

PyMultiImport ==
  /\ InLoop
  /\ ~IsSkipped(CurrentLine)
  /\ ~FromMatch.ok
  /\ MultiMatch.ok
  /\ imports' = imports \o parseMultiImport(MultiMatch, lineIndex)
  /\ lineIndex' = lineIndex + 1
  /\ scanned' = Append(scanned, lineIndex)
  /\ UNCHANGED <<languageId, text, pc, errors, result, usages, lines, queryPath, resolved,
               docs, history, nextId, mig, undo, scan>>

(* The throw of document.lineAt leaving parse: the loop ends there. *)
PyMultiImportThrowsAborts ==
  /\ InLoop
  /\ ~IsSkipped(CurrentLine)
  /\ ~FromMatch.ok
  /\ MultiMatch.ok
  /\ Len(MultiPackages(MultiMatch)) > 0
  /\ errors' = Append(errors, "Error parsing line " \o NatToString(lineIndex + 1)
                                \o ": Error: Illegal value for line")
  /\ pc' = "done"
  /\ result' = ParseResult(imports, errors')
  /\ scanned' = Append(scanned, lineIndex)
  /\ UNCHANGED <<languageId, text, lineIndex, imports, usages, lines, queryPath, resolved,
               docs, history, nextId, mig, undo, scan>>

(* document.lineAt, the one call of the try block into the editor, throws: *)
(* parseMultiImport reaches it when building its first record.             *)
PyMultiImportThrows ==
  /\ InLoop
  /\ ~IsSkipped(CurrentLine)
  /\ ~FromMatch.ok
  /\ MultiMatch.ok
  /\ Len(MultiPackages(MultiMatch)) > 0
  /\ errors' = Append(errors, "Error parsing line " \o NatToString(lineIndex + 1)
                                \o ": Error: Illegal value for line")
  /\ lineIndex' = lineIndex + 1
  /\ scanned' = Append(scanned, lineIndex)
  /\ UNCHANGED <<languageId, text, pc, imports, result, usages, lines, queryPath, resolved,
               docs, history, nextId, mig, undo, scan>>

PySimpleImport ==
  /\ InLoop
  /\ ~IsSkipped(CurrentLine)
  /\ ~FromMatch.ok
  /\ ~MultiMatch.ok
  /\ imports' = IF ImportMatch.ok /\ ~isRelativeImport(ImportMatch.caps[1][1])
                THEN Append(imports, PyImport(ImportMatch.caps[1][1], Line(lineIndex),
                                              getLineRange(lineIndex), Undefined))
                ELSE imports
  /\ lineIndex' = lineIndex + 1
  /\ scanned' = Append(scanned, lineIndex)
  /\ UNCHANGED <<languageId, text, pc, errors, result, usages, lines, queryPath, resolved,
               docs, history, nextId, mig, undo, scan>>

PyReturn ==
  /\ pc = "py"
  /\ lineIndex >= Len(lines)
  /\ result' = ParseResult(imports, errors)
  /\ pc' = "done"
  /\ UNCHANGED <<languageId, text, lineIndex, imports, errors, usages, scanned, lines, queryPath, resolved,
               docs, history, nextId, mig, undo, scan>>

PyParse ==
  \/ PySkipLine
  \/ PyFromImport
  \/ PyMultiImport
  \/ PyMultiImportThrows
  \/ PySimpleImport
  \/ PyReturn

(***************************************************************************)
(* JsTsParser.parse: the four passes, then deduplication.                  *)
(***************************************************************************)
JsParseES6 ==
  /\ pc = "es6"
  /\ imports' = imports \o parseES6Imports
  /\ pc' = "require"
  /\ UNCHANGED <<languageId, text, lineIndex, errors, result, usages, scanned, lines, queryPath, resolved,
               docs, history, nextId, mig, undo, scan>>

JsParseRequires ==
  /\ pc = "require"
  /\ imports' = imports \o parseRequires
  /\ pc' = "dynamic"
  /\ UNCHANGED <<languageId, text, lineIndex, errors, result, usages, scanned, lines, queryPath, resolved,
               docs, history, nextId, mig, undo, scan>>

JsParseDynamicImports ==
  /\ pc = "dynamic"
  /\ imports' = imports \o parseDynamicImports
  /\ pc' = "reexport"
  /\ UNCHANGED <<languageId, text, lineIndex, errors, result, usages, scanned, lines, queryPath, resolved,
               docs, history, nextId, mig, undo, scan>>

JsParseReexports ==
  /\ pc = "reexport"
  /\ imports' = imports \o parseReexports
  /\ pc' = "dedup"
  /\ UNCHANGED <<languageId, text, lineIndex, errors, result, usages, scanned, lines, queryPath, resolved,
               docs, history, nextId, mig, undo, scan>>

JsReturn ==
  /\ pc = "dedup"
  /\ result' = ParseResult(deduplicateImports(imports), errors)
  /\ pc' = "done"
  /\ UNCHANGED <<languageId, text, lineIndex, imports, errors, usages, scanned, lines, queryPath, resolved,
               docs, history, nextId, mig, undo, scan>>

JsParse ==
  \/ JsParseES6
  \/ JsParseRequires
  \/ JsParseDynamicImports
  \/ JsParseReexports
  \/ JsReturn

(***************************************************************************)
(* trackPythonUsages(document, parseResult.imports), as the migrate        *)
(* command calls it on a Python document after parsing it.                 *)
(***************************************************************************)
TrackUsages ==
  /\ pc = "done"
  /\ languageId = "python"
  /\ LET us == trackUsages(result.imports)
     IN  usages' = [usages |-> us, totalUsageCount |-> TotalUsageCount(us)]
  /\ pc' = "tracked"
  /\ UNCHANGED <<languageId, text, lineIndex, imports, errors, result, scanned, lines, queryPath, resolved,
               docs, history, nextId, mig, undo, scan>>

Next == parseImports \/ PyParse \/ JsParse \/ TrackUsages

Spec == Init /\ [][Next]_vars

(***************************************************************************)
(* The Package Identity Resolver on its own: the module paths are the      *)
(* `/`-joined sequences of up to MaxSegments segments that the JS/TS       *)
(* passes hand to getTopLevelPackage, which they do only for a non-empty   *)
(* path that isRelativeImport rejects.                                     *)
(***************************************************************************)
SegmentCorpus == {"", "a", "@o", "b.c"}

ModulePaths ==
  {Join(segs, "/") : segs \in UNION {[1..n -> SegmentCorpus] : n \in 1..MaxSegments}}

InitResolver ==
  /\ languageId = "javascript"
  /\ text = ""
  /\ queryPath \in ModulePaths
  /\ Idle
  /\ docs = NoMigrations.docs
  /\ history = NoMigrations.history
  /\ nextId = NoMigrations.nextId
  /\ mig = NoMigrations.mig
  /\ undo = NoMigrations.undo
  /\ scan = NoMigrations.scan

Resolve ==
  /\ pc = "start"
  /\ resolved = Undefined
  /\ resolved' = Some(getTopLevelPackage(queryPath))
  /\ UNCHANGED <<languageId, text, pc, lineIndex, imports, errors, result, usages,
                 scanned, lines, queryPath, docs, history, nextId, mig, undo, scan>>

(* The output of the resolver resolved once more. *)
ResolveAgain ==
  /\ pc = "start"
  /\ IsDefined(resolved)
  /\ resolved' = Some(getTopLevelPackage(resolved[1]))
  /\ pc' = "resolved again"
  /\ UNCHANGED <<languageId, text, lineIndex, imports, errors, result, usages,
                 scanned, lines, queryPath, docs, history, nextId, mig, undo, scan>>

NextResolver == Resolve \/ ResolveAgain

SpecResolver == InitResolver /\ [][NextResolver]_vars

(***************************************************************************)
(* The Python usage tracker on documents made for it: one import statement *)
(* followed by up to MaxUsageLines lines that use, or only seem to use,    *)
(* the names it binds.  parseImports and trackPythonUsages run as in       *)
(* migratePackage.                                                         *)
(***************************************************************************)
MaxUsageLines == 2

UsageImportCorpus ==
  {"from m import a as b, c",
   "import p.q as A",
   "from f import Flask, get, _x, aBBBBBBBBBBBBBBBBBBBBBBBBBBBBBBBBBBBBBBBBBBBBBBBBBB",
   "from m import (\n  a,\n  b as c)"}

UsageLineCorpus ==
  {"c(1)",
   "A.f(x)",
   "q.f(x)",
   "x = \"#\"; A.f()",
   "# A.f(x)",
   "return A",
   "Flask(get (1), _x(), aBBBBBBBBBBBBBBBBBBBBBBBBBBBBBBBBBBBBBBBBBBBBBBBBBB())"}

UsageTexts ==
  {Join(<<imp>> \o body, "\n") :
     imp \in UsageImportCorpus,
     body \in UNION {[1..n -> UsageLineCorpus] : n \in 0..MaxUsageLines}}

InitUsages ==
  /\ languageId = "python"
  /\ text \in UsageTexts
  /\ queryPath = ""
  /\ Idle
  /\ docs = NoMigrations.docs
  /\ history = NoMigrations.history
  /\ nextId = NoMigrations.nextId
  /\ mig = NoMigrations.mig
  /\ undo = NoMigrations.undo
  /\ scan = NoMigrations.scan

NextUsages == parseImports \/ PyParse \/ TrackUsages

SpecUsages == InitUsages /\ [][NextUsages]_vars

(***************************************************************************)
(* The Python extractor on documents made for its line cursor: up to       *)
(* MaxCursorLines lines, among them a from-import that opens a parenthesis *)
(* (with and without a `)` in a trailing comment), its continuation lines, *)
(* a multi-import, a comment, a relative from-import and a line that is    *)
(* no import.                                                              *)
(***************************************************************************)
MaxCursorLines == 3

CursorLineCorpus ==
  {"from m import ( # )",
   "from m import (",
   "  a,",
   "  b)",
   "import os, b",
   "# c",
   "from .r import x",
   "x = 1"}

InitCursor ==
  /\ languageId = "python"
  /\ text \in {Join(doc, "\n") :
                 doc \in UNION {[1..n -> CursorLineCorpus] : n \in 1..MaxCursorLines}}
  /\ queryPath = ""
  /\ Idle
  /\ docs = NoMigrations.docs
  /\ history = NoMigrations.history
  /\ nextId = NoMigrations.nextId
  /\ mig = NoMigrations.mig
  /\ undo = NoMigrations.undo
  /\ scan = NoMigrations.scan

NextCursor == parseImports \/ PyParse

SpecCursor == InitCursor /\ [][NextCursor]_vars

(***************************************************************************)
(* Migrations and their history.  A migration is generated for a document  *)
(* that imports the deprecated package, here `old` with the replacement    *)
(* `new` (the range is the full range of the document as it then is, the   *)
(* migrated code is the model's answer for the whole file), shown as a     *)
(* diff, and applied or not as the user answers the prompt, in the         *)
(* migrate-package flow (kind "command") and in the show-migration flow    *)
(* (kind "inline").  Undo Last Migration runs beside it.  Every await of   *)
(* the handlers is a point where the other flow may take a step.  When a   *)
(* flow has returned, mig.choice keeps the answer it was given.            *)
(***************************************************************************)
MaxMigrationHistorySize == 2

MaxMigrations == 3

(* darwin.confidenceThreshold, in percent (the default 0.8). *)
ConfidenceThreshold == 80

FileUris == {"file:///a.py", "file:///b.py"}

InitMigration ==
  /\ languageId = "python"
  /\ text = ""
  /\ queryPath = ""
  /\ Idle
  /\ docs = [fileUri \in FileUris |->
               IF fileUri = "file:///a.py" THEN "import old\nold.f()" ELSE "import old"]
  /\ history = <<>>
  /\ nextId = 0
  /\ mig = NoMigrations.mig
  /\ undo = NoMigrations.undo
  /\ scan = NoMigrations.scan

(* WorkspaceEdit.replace(uri, range, newText) applied to the text of the   *)
(* document: the positions of the range are clamped to the document.       *)
ReplaceRange(txt, range, newText) ==
  LET ls == Split(txt, "\n")
      OffsetOf(l, c) ==
        IF l >= Len(ls) THEN Len(txt)
        ELSE Len(Join(SubSeq(ls, 1, l), "\n")) + (IF l > 0 THEN 1 ELSE 0)
             + Min2(c, Len(ls[l + 1]))
  IN  Substring(txt, 0, OffsetOf(range.sl, range.sc)) \o newText
      \o Substring(txt, OffsetOf(range.el, range.ec), Len(txt))

(* recordMigration with push in the place of unshift. *)
recordMigrationPush(entry) ==
  LET historyEntry == [id |-> nextId + 1, fileUri |-> entry.fileUri,
                       originalContent |-> entry.originalContent,
                       migratedContent |-> entry.migratedContent,
                       fromPackage |-> entry.fromPackage, toPackage |-> entry.toPackage,
                       appliedAt |-> nextId + 1, undone |-> FALSE]
      pushed == Append(history, historyEntry)
  IN  IF Len(pushed) > MaxMigrationHistorySize
      THEN SubSeq(pushed, 1, MaxMigrationHistorySize)
      ELSE pushed

(* unshift, then slice(0, maxMigrationHistorySize): most recent first. *)
recordMigration(entry) ==
  LET historyEntry == [id |-> nextId + 1, fileUri |-> entry.fileUri,
                       originalContent |-> entry.originalContent,
                       migratedContent |-> entry.migratedContent,
                       fromPackage |-> entry.fromPackage, toPackage |-> entry.toPackage,
                       appliedAt |-> nextId + 1, undone |-> FALSE]
      unshifted == <<historyEntry>> \o history
  IN  IF Len(unshifted) > MaxMigrationHistorySize
      THEN SubSeq(unshifted, 1, MaxMigrationHistorySize)
      ELSE unshifted

(* migrationHistory.find: the first entry not undone, of the file when a   *)
(* fileUri is given (the empty string stands for undefined).               *)
getLastMigration(fileUri) ==
  LET S == {k \in 1..Len(history) :
              /\ ~history[k].undone
              /\ fileUri # "" => history[k].fileUri = fileUri}
  IN  IF S = {} THEN Undefined ELSE Some(history[CHOOSE k \in S : \A j \in S : k <= j])

hasUndoableMigrations(fileUri) == IsDefined(getLastMigration(fileUri))

getUndoableMigrationCount == Len(SelectSeq(history, LAMBDA m : ~m.undone))

meetsConfidenceThreshold(confidence) == confidence >= ConfidenceThreshold

(* executeMigration of the migrate-package flow, up to its first await     *)
(* after the deprecation data of a deprecated package is there: the        *)
(* confidence check with the configuration as it is read then.  Below the  *)
(* threshold with the warnings off it returns at once.                     *)
executeMigration ==
  /\ mig.stage = "idle"
  /\ nextId < MaxMigrations
  /\ \E fileUri \in FileUris,
        confidence \in {ConfidenceThreshold - 1, ConfidenceThreshold},
        customReplacement \in {"", "new"}, showLowConfidenceWarnings \in BOOLEAN :
       LET flow == [NoMigrations.mig EXCEPT
                      !.kind = "command", !.fileUri = fileUri, !.confidence = confidence,
                      !.customReplacement = customReplacement,
                      !.showLowConfidenceWarnings = showLowConfidenceWarnings]
       IN  /\ Includes(docs[fileUri], "import old")
           /\ mig' = IF customReplacement = "" /\ ~meetsConfidenceThreshold(confidence)
                      THEN IF showLowConfidenceWarnings
                           THEN [flow EXCEPT !.stage = "low confidence"]
                           ELSE NoMigrations.mig
                      ELSE [flow EXCEPT !.stage = "checked"]
  /\ UNCHANGED <<docs, history, nextId, undo>>
  /\ UNCHANGED <<parserVars, scan>>

(* The prompt taken as agreed to unless the answer is `Cancel`: a          *)
(* dismissed prompt proceeds.                                              *)
confirmLowConfidenceUnlessCancel ==
  /\ mig.stage = "low confidence"
  /\ \E proceed \in {"Yes, Migrate", "Cancel", "dismissed"} :
       mig' = IF proceed # "Cancel"
              THEN [mig EXCEPT !.stage = "checked", !.choice = proceed]
              ELSE [NoMigrations.mig EXCEPT !.choice = proceed]
  /\ UNCHANGED <<docs, history, nextId, undo>>
  /\ UNCHANGED <<parserVars, scan>>

(* The answer to `Low confidence ... Proceed anyway?`. *)
confirmLowConfidence ==
  /\ mig.stage = "low confidence"
  /\ \E proceed \in {"Yes, Migrate", "Cancel", "dismissed"} :
       mig' = IF proceed = "Yes, Migrate"
              THEN [mig EXCEPT !.stage = "checked", !.choice = proceed]
              ELSE [NoMigrations.mig EXCEPT !.choice = proceed]
  /\ UNCHANGED <<docs, history, nextId, undo>>
  /\ UNCHANGED <<parserVars, scan>>

(* generateMigration, called by executeMigration once the checks are       *)
(* passed (kind "command") and by showMigration at once (kind "inline").   *)
generateMigration ==
  /\ nextId < MaxMigrations
  /\ \E kind \in {"command", "inline"}, fileUri \in FileUris,
        migratedCode \in {"import new"} :
       LET ls == Split(docs[fileUri], "\n")
       IN  /\ IF kind = "command"
              THEN mig.stage = "checked" /\ fileUri = mig.fileUri
              ELSE mig.stage = "idle"
           /\ Includes(docs[fileUri], "import old")
           /\ mig' = [NoMigrations.mig EXCEPT
                        !.stage = "generated", !.kind = kind, !.fileUri = fileUri,
                        !.range = createRange(0, 0, Len(ls) - 1, Len(ls[Len(ls)])),
                        !.migratedCode = migratedCode]
  /\ UNCHANGED <<docs, history, nextId, undo>>
  /\ UNCHANGED <<parserVars, scan>>

(* showMigrationDiff applying the edit as soon as the diff is open, before *)
(* any answer.                                                             *)
showMigrationDiffApplies ==
  /\ mig.stage = "generated"
  /\ docs' = [docs EXCEPT ![mig.fileUri] = ReplaceRange(@, mig.range, mig.migratedCode)]
  /\ mig' = [mig EXCEPT !.stage = "prompt", !.diffOpened = TRUE]
  /\ UNCHANGED <<history, nextId, undo>>
  /\ UNCHANGED <<parserVars, scan>>

showMigrationDiff ==
  /\ mig.stage = "generated"
  /\ mig' = [mig EXCEPT !.stage = "prompt", !.diffOpened = TRUE]
  /\ UNCHANGED <<docs, history, nextId, undo>>
  /\ UNCHANGED <<parserVars, scan>>

(* migratePackage.ts: the answer is `Apply Changes`. *)
applyMigration ==
  /\ mig.stage = "prompt"
  /\ mig.kind = "command"
  /\ \E success \in BOOLEAN :
       IF success
       THEN /\ docs' = [docs EXCEPT ![mig.fileUri] =
                                      ReplaceRange(@, mig.range, mig.migratedCode)]
            /\ history' = recordMigration([fileUri |-> mig.fileUri,
                                           originalContent |-> docs[mig.fileUri],
                                           migratedContent |-> mig.migratedCode,
                                           fromPackage |-> "old", toPackage |-> "new"])
            /\ nextId' = nextId + 1
            /\ mig' = [NoMigrations.mig EXCEPT !.choice = "Apply Changes"]
       ELSE /\ mig' = [NoMigrations.mig EXCEPT !.choice = "Apply Changes"]
            /\ UNCHANGED <<docs, history, nextId>>
  /\ UNCHANGED undo
  /\ UNCHANGED <<parserVars, scan>>

(* The inline suggestion provider: the answer is `Accept Migration`. *)
acceptMigration ==
  /\ mig.stage = "prompt"
  /\ mig.kind = "inline"
  /\ \E success \in BOOLEAN :
       IF success
       THEN /\ docs' = [docs EXCEPT ![mig.fileUri] =
                                      ReplaceRange(@, mig.range, mig.migratedCode)]
            /\ mig' = [NoMigrations.mig EXCEPT !.choice = "Accept Migration"]
       ELSE /\ mig' = [NoMigrations.mig EXCEPT !.choice = "Accept Migration"]
            /\ UNCHANGED docs
  /\ UNCHANGED <<history, nextId, undo>>
  /\ UNCHANGED <<parserVars, scan>>

(* Any other answer to the prompt, or none. *)
rejectMigration ==
  /\ mig.stage = "prompt"
  /\ \E choice \in {IF mig.kind = "command" THEN "Cancel" ELSE "Reject", "dismissed"} :
       mig' = [NoMigrations.mig EXCEPT !.choice = choice]
  /\ UNCHANGED <<docs, history, nextId, undo>>
  /\ UNCHANGED <<parserVars, scan>>

(* The handler of darwin.undoMigration up to its confirmation prompt; the  *)
(* fileUri is that of the active editor, if there is one.                  *)
UndoMigrationCommand ==
  /\ undo.stage = "idle"
  /\ \E fileUri \in FileUris \cup {""} :
       /\ hasUndoableMigrations(fileUri)
       /\ undo' = [undo EXCEPT !.stage = "confirm", !.fileUri = fileUri,
                                !.entry = getLastMigration(fileUri)]
  /\ UNCHANGED <<docs, history, nextId, mig>>
  /\ UNCHANGED <<parserVars, scan>>

(* The edit of undoMigration, which restores originalContent over the full *)
(* range of the document, and the flag it sets when the edit succeeds.     *)
RestoreOriginal(entry) ==
  /\ \E success \in BOOLEAN :
       IF success
       THEN /\ docs' = [docs EXCEPT ![entry.fileUri] = entry.originalContent]
            /\ history' = [k \in 1..Len(history) |->
                             IF history[k].id = entry.id
                             THEN [history[k] EXCEPT !.undone = TRUE] ELSE history[k]]
            /\ undo' = [NoMigrations.undo EXCEPT !.returned = "true"]
       ELSE /\ UNCHANGED <<docs, history>>
            /\ undo' = [NoMigrations.undo EXCEPT !.returned = "false"]

(* `Yes, Undo`: undoLastMigration(fileUri), up to the second prompt of     *)
(* undoMigration when the file no longer holds the migrated content.       *)
undoLastMigration ==
  /\ undo.stage = "confirm"
  /\ LET lastMigration == getLastMigration(undo.fileUri)
     IN  IF ~IsDefined(lastMigration)
         THEN /\ undo' = [NoMigrations.undo EXCEPT !.returned = "false"]
              /\ UNCHANGED <<docs, history>>
         ELSE IF docs[lastMigration[1].fileUri] # lastMigration[1].migratedContent
         THEN /\ undo' = [undo EXCEPT !.stage = "modified", !.entry = lastMigration]
              /\ UNCHANGED <<docs, history>>
         ELSE RestoreOriginal(lastMigration[1])
  /\ UNCHANGED <<nextId, mig>>
  /\ UNCHANGED <<parserVars, scan>>

(* `Yes, Undo` to the second prompt. *)
undoMigration ==
  /\ undo.stage = "modified"
  /\ RestoreOriginal(undo.entry[1])
  /\ UNCHANGED <<nextId, mig>>
  /\ UNCHANGED <<parserVars, scan>>

(* `Cancel` to either prompt, or none; at the second prompt undoMigration  *)
(* returns false.                                                          *)
UndoCancel ==
  /\ undo.stage \in {"confirm", "modified"}
  /\ undo' = [NoMigrations.undo EXCEPT
                !.returned = IF undo.stage = "modified" THEN "false" ELSE undo.returned]
  /\ UNCHANGED <<docs, history, nextId, mig>>
  /\ UNCHANGED <<parserVars, scan>>

(* undoMigration testing only that the entry is in the history. *)
undoMigrationOfUndone(migrationId) ==
  /\ undo.stage = "idle"
  /\ IF \E k \in 1..Len(history) : history[k].id = migrationId
     THEN LET entry == history[CHOOSE k \in 1..Len(history) : history[k].id = migrationId]
          IN  /\ entry.undone
              /\ docs' = [docs EXCEPT ![entry.fileUri] = entry.originalContent]
              /\ undo' = [undo EXCEPT !.returned = "true"]
     ELSE /\ docs' = docs
          /\ undo' = [undo EXCEPT !.returned = "false"]
  /\ UNCHANGED <<history, nextId, mig>>
  /\ UNCHANGED <<parserVars, scan>>

(* undoMigration(migrationId) called with the id of no entry of the        *)
(* history, or of an entry already undone: it returns false.               *)
undoMigrationRefused(migrationId) ==
  /\ undo.stage = "idle"
  /\ \A k \in 1..Len(history) : history[k].id = migrationId => history[k].undone
  /\ undo' = [undo EXCEPT !.returned = "false"]
  /\ UNCHANGED <<docs, history, nextId, mig>>
  /\ UNCHANGED <<parserVars, scan>>

clearMigrationHistory ==
  /\ history # <<>>
  /\ history' = <<>>
  /\ UNCHANGED <<docs, nextId, mig, undo>>
  /\ UNCHANGED <<parserVars, scan>>

(* The user edits a document in the editor. *)
EditDocument ==
  /\ \E fileUri \in FileUris :
       /\ ~EndsWith(docs[fileUri], "# edited")
       /\ docs' = [docs EXCEPT ![fileUri] = @ \o "\n# edited"]
  /\ UNCHANGED <<history, nextId, mig, undo>>
  /\ UNCHANGED <<parserVars, scan>>

NextMigration ==
  \/ EditDocument
  \/ executeMigration \/ confirmLowConfidence
  \/ generateMigration \/ showMigrationDiff \/ applyMigration \/ acceptMigration
  \/ rejectMigration
  \/ UndoMigrationCommand \/ undoLastMigration \/ undoMigration \/ UndoCancel
  \/ \E migrationId \in 1..MaxMigrations : undoMigrationRefused(migrationId)
  \/ clearMigrationHistory

SpecMigration == InitMigration /\ [][NextMigration]_vars

(***************************************************************************)
(* Scans.  A scan checks the imports of a document one after the other     *)
(* (checkMultipleDeprecations), each check answering from the ignore list, *)
(* from the cache, or from the web search and the analysis of its results, *)
(* and then sets the diagnostics of the document.  Beside the scan the     *)
(* clock advances (in months, the unit of darwin.cacheTtlMonths), the      *)
(* cache is cleared and packages are added to darwin.ignoredPackages:      *)
(* every await of the scan is a point where they may.                      *)
(***************************************************************************)
MaxTime == 3

(* darwin.cacheTtlMonths (the default). *)
CacheTtlMonths == 2

ScanImport(language, packageName) == [packageName |-> packageName, language |-> language]

(* The imports of the documents scanned: a Python and a JavaScript one. *)
ScanDocuments ==
  {<<ScanImport("python", "old"), ScanImport("python", "dep")>>,
   <<ScanImport("javascript", "old")>>}

getCacheKey(packageName, language) == language \o ":" \o packageName

isEntryValid(entry) == scan.now - entry.timestamp < CacheTtlMonths

getCachedDeprecation(packageName, language) ==
  LET key == getCacheKey(packageName, language)
  IN  IF key \notin DOMAIN scan.cache THEN Undefined
      ELSE IF ~isEntryValid(scan.cache[key]) THEN Undefined
      ELSE Some(scan.cache[key].data)

(* store[key] = { data: {...info, cachedAt}, timestamp } *)
cacheDeprecation(info) ==
  LET key == getCacheKey(info.packageName, info.language)
      entry == [data |-> [packageName |-> info.packageName, language |-> info.language,
                          isDeprecated |-> info.isDeprecated,
                          confidence |-> info.confidence, cachedAt |-> scan.now],
                timestamp |-> scan.now]
  IN  [k \in DOMAIN scan.cache \cup {key} |-> IF k = key THEN entry ELSE scan.cache[k]]

DeprecationInfo(importInfo, isDeprecated, confidence) ==
  [packageName |-> importInfo.packageName, language |-> importInfo.language,
   isDeprecated |-> isDeprecated, confidence |-> confidence]

(* results.set(importInfo.packageName, result), and on to the next import. *)
Checked(importInfo, info, cache) ==
  scan' = [scan EXCEPT
             !.stage = "next",
             !.queue = Tail(scan.queue),
             !.cache = cache,
             !.results = [p \in DOMAIN scan.results \cup {importInfo.packageName} |->
                            IF p = importInfo.packageName THEN info ELSE scan.results[p]]]

(* scanDocument up to the first check: the imports of the document. *)
scanDocument ==
  /\ scan.stage = "idle"
  /\ \E imps \in ScanDocuments :
       scan' = [scan EXCEPT !.stage = "next", !.imports = imps, !.queue = imps,
                            !.results = <<>>]
  /\ UNCHANGED <<parserVars, docs, history, nextId, mig, undo>>

(* checkDeprecation without the test of the ignore list. *)
checkDeprecationIgnoresNothing ==
  /\ scan.stage = "next"
  /\ scan.queue # <<>>
  /\ LET importInfo == Head(scan.queue)
         cached == getCachedDeprecation(importInfo.packageName, importInfo.language)
     IN  IF IsDefined(cached)
         THEN Checked(importInfo, cached[1], scan.cache)
         ELSE scan' = [scan EXCEPT !.stage = "searching"]
  /\ UNCHANGED <<parserVars, docs, history, nextId, mig, undo>>

(* checkDeprecation of the next import, up to its first await: the ignore  *)
(* list, then the cache, then the call of searchDeprecationStatus.         *)
checkDeprecation ==
  /\ scan.stage = "next"
  /\ scan.queue # <<>>
  /\ LET importInfo == Head(scan.queue)
         cached == getCachedDeprecation(importInfo.packageName, importInfo.language)
     IN  IF importInfo.packageName \in scan.ignoredPackages
         THEN scan' = [scan EXCEPT !.queue = Tail(scan.queue)]
         ELSE IF IsDefined(cached)
         THEN Checked(importInfo, cached[1], scan.cache)
         ELSE scan' = [scan EXCEPT !.stage = "searching"]
  /\ UNCHANGED <<parserVars, docs, history, nextId, mig, undo>>

(* searchDeprecationStatus has answered: with no results, with results, or *)
(* with an exception.                                                      *)
searchDeprecationStatus ==
  /\ scan.stage = "searching"
  /\ LET importInfo == Head(scan.queue)
         notFound == DeprecationInfo(importInfo, FALSE, 50)
         failed == DeprecationInfo(importInfo, FALSE, 0)
     IN  \E searchResults \in {"none", "some", "throws"} :
           CASE searchResults = "none" ->
                  Checked(importInfo, notFound, cacheDeprecation(notFound))
             [] searchResults = "some" -> scan' = [scan EXCEPT !.stage = "analysing"]
             [] searchResults = "throws" -> Checked(importInfo, failed, scan.cache)
  /\ UNCHANGED <<parserVars, docs, history, nextId, mig, undo>>

(* analyzeDeprecationStatus caching whatever it answers. *)
analyzeDeprecationStatusCachesAll ==
  /\ scan.stage = "analysing"
  /\ LET importInfo == Head(scan.queue)
     IN  \E isDeprecated \in BOOLEAN, confidence \in {0, 90} :
           LET info == DeprecationInfo(importInfo, isDeprecated /\ confidence > 0, confidence)
           IN  Checked(importInfo, info, cacheDeprecation(info))
  /\ UNCHANGED <<parserVars, docs, history, nextId, mig, undo>>

(* analyzeDeprecationStatus has answered; confidence 0 is the answer of a  *)
(* failed call of the model, which is not cached.                          *)
analyzeDeprecationStatus ==
  /\ scan.stage = "analysing"
  /\ LET importInfo == Head(scan.queue)
     IN  \E isDeprecated \in BOOLEAN, confidence \in {0, 90} :
           LET info == DeprecationInfo(importInfo, isDeprecated /\ confidence > 0, confidence)
           IN  Checked(importInfo, info,
                       IF confidence > 0 THEN cacheDeprecation(info) ELSE scan.cache)
  /\ UNCHANGED <<parserVars, docs, history, nextId, mig, undo>>

(* The scan after checkMultipleDeprecations has returned: a diagnostic for *)
(* every import whose entry of the map is deprecated.                      *)
setDiagnostics ==
  /\ scan.stage = "next"
  /\ scan.queue = <<>>
  /\ scan' = [scan EXCEPT
                !.stage = "idle",
                !.diagnostics =
                  {scan.imports[k].packageName : k \in
                     {n \in 1..Len(scan.imports) :
                        /\ scan.imports[n].packageName \in DOMAIN scan.results
                        /\ scan.results[scan.imports[n].packageName].isDeprecated}}]
  /\ UNCHANGED <<parserVars, docs, history, nextId, mig, undo>>

clearCache ==
  /\ scan.cache # <<>>
  /\ scan' = [scan EXCEPT !.cache = <<>>]
  /\ UNCHANGED <<parserVars, docs, history, nextId, mig, undo>>

(* Ignore this package: addToIgnoreList. *)
handleIgnorePackage ==
  /\ \E packageName \in {"old", "dep"} \ scan.ignoredPackages :
       scan' = [scan EXCEPT !.ignoredPackages = @ \cup {packageName}]
  /\ UNCHANGED <<parserVars, docs, history, nextId, mig, undo>>

(* Date.now() a month later. *)
Tick ==
  /\ scan.now < MaxTime
  /\ scan' = [scan EXCEPT !.now = @ + 1]
  /\ UNCHANGED <<parserVars, docs, history, nextId, mig, undo>>

InitScan ==
  /\ languageId = "python"
  /\ text = ""
  /\ queryPath = ""
  /\ Idle
  /\ docs = NoMigrations.docs
  /\ history = NoMigrations.history
  /\ nextId = NoMigrations.nextId
  /\ mig = NoMigrations.mig
  /\ undo = NoMigrations.undo
  /\ scan = NoMigrations.scan

NextScan ==
  \/ scanDocument \/ checkDeprecation \/ searchDeprecationStatus
  \/ analyzeDeprecationStatus \/ setDiagnostics
  \/ clearCache \/ handleIgnorePackage \/ Tick

SpecScan == InitScan /\ [][NextScan]_vars

(***************************************************************************)
(* Vocabulary of the properties.                                           *)
(***************************************************************************)
IsPython == languageId = "python"

IsJsTs == languageId \in JsTsLanguageIds

Parsed == pc \in {"done", "tracked"}

Indices(seq) == 1..Len(seq)

PositionLt(l1, c1, l2, c2) == l1 < l2 \/ (l1 = l2 /\ c1 < c2)

RangesOverlap(r1, r2) ==
  /\ PositionLt(r1.sl, r1.sc, r2.el, r2.ec)
  /\ PositionLt(r2.sl, r2.sc, r1.el, r1.ec)

IsLocalPath(p) == CharAt(p, 0) \in {".", "/"}

(* The index in seq of the first record named as seq[k]. *)
FirstIndexOfName(seq, name) ==
  CHOOSE k \in Indices(seq) :
    /\ seq[k].packageName = name
    /\ \A j \in 1..(k - 1) : seq[j].packageName # name

(***************************************************************************)
(* C1: two statements importing the same package in one Python file give   *)
(* exactly one record in the list parse returns: the first is kept and     *)
(* every later one is dropped.                                             *)
(***************************************************************************)
C1_PythonOneRecordPerPackage ==
  (IsPython /\ Parsed) =>
    /\ \A i, j \in Indices(result.imports) :
         i # j => result.imports[i].packageName # result.imports[j].packageName
    /\ \A k \in Indices(result.imports) :
         result.imports[k] =
           imports[FirstIndexOfName(imports, result.imports[k].packageName)]

(***************************************************************************)
(* C2: any two distinct records returned by one extractor call have source *)
(* ranges that do not overlap, also the records of one multi-import line.  *)
(***************************************************************************)
C2_RangesNeverOverlap ==
  Parsed =>
    \A i, j \in Indices(result.imports) :
      i # j => ~RangesOverlap(result.imports[i].range, result.imports[j].range)

(***************************************************************************)
(* C3: every record of either extractor has a non-empty packageName that   *)
(* begins with neither `.` nor `/`, and a declaration whose module path    *)
(* begins with `.` or `/` produces no record: the Python from-import and   *)
(* import forms and the four JS/TS shapes.                                 *)
(***************************************************************************)
PackageNameIsPackage(r) == r.packageName # "" /\ ~IsLocalPath(r.packageName)

NoRecordAt(m) ==
  \A k \in Indices(imports) :
    ~(imports[k].importStatement = MatchText(text, m)
      /\ imports[k].range = OffsetRange(text, m.index, m.end))

LocalMatchesGiveNoRecord(re, pathGroup) ==
  LET matches == ExecAll(re, text, 0)
  IN  \A k \in Indices(matches) :
        IsLocalPath(matches[k].caps[pathGroup][1]) => NoRecordAt(matches[k])

RelativeFromImportAt(i) ==
  LET m == Exec(FROM_IMPORT_REGEX, Trim(Line(i)), 0)
  IN  m.ok /\ IsLocalPath(m.caps[1][1])

C3_NoRelativeImportIsExtracted ==
  /\ \A k \in Indices(imports) : PackageNameIsPackage(imports[k])
  /\ \A k \in Indices(result.imports) : PackageNameIsPackage(result.imports[k])
  /\ (IsPython /\ pc = "py") =>
       \A n \in Indices(scanned) :
         RelativeFromImportAt(scanned[n]) =>
           \A k \in Indices(imports) : imports[k].range.sl # scanned[n]
  /\ (IsJsTs /\ pc = "done") =>
       /\ LocalMatchesGiveNoRecord(ES6_IMPORT_REGEX, 4)
       /\ LocalMatchesGiveNoRecord(REQUIRE_REGEX, 3)
       /\ LocalMatchesGiveNoRecord(DYNAMIC_IMPORT_REGEX, 1)
       /\ LocalMatchesGiveNoRecord(REEXPORT_REGEX, 1)

C3_Witness ==
  /\ IsJsTs /\ pc = "done"
  /\ text = "const {q} = require('/abs')\nimport('d')"
  /\ Len(result.imports) = 1
  /\ result.imports[1].packageName = "d"

(***************************************************************************)
(* C4: for every module path p, getTopLevelPackage(p) is, for p starting   *)
(* with `@`, the first two `/`-delimited segments joined by `/` when there *)
(* are at least two and p otherwise; for any other p it is the text before *)
(* the first `/` when p holds one, and p otherwise.                        *)
(* The code leaves a p that begins with `/` unchanged (C4 as amended: the  *)
(* text before the first `/` when p holds one after its first character).  *)
(***************************************************************************)
Segments(p) == Split(p, "/")

ScopedPackage(p) ==
  IF Len(Segments(p)) >= 2 THEN Segments(p)[1] \o "/" \o Segments(p)[2] ELSE p

SupportedLanguageIds ==
  {"python", "javascript", "typescript", "javascriptreact", "typescriptreact"}

C5_UnsupportedLanguage ==
  (languageId \notin SupportedLanguageIds /\ pc # "start") =>
    /\ pc = "done"
    /\ result.imports = <<>>
    /\ Len(result.errors) = 1
    /\ Includes(result.errors[1], languageId)
    /\ StartsWith(result.errors[1], "Unsupported language")
    /\ imports = <<>> /\ errors = <<>> /\ lines = <<>> /\ scanned = <<>>

C5_Witness ==
  /\ languageId = "go"
  /\ text = "import('d')"
  /\ pc = "done"
  /\ result.errors = <<"Unsupported language: go">>

(***************************************************************************)
(* C6: when interpreting the statement at line i (counted from 0) throws,  *)
(* exactly one error string tagged with line i + 1 is appended, the        *)
(* statement emits no record, the records of earlier lines are kept and    *)
(* scanning resumes at line i + 1; parse still returns, with the imports   *)
(* of the other lines and the errors.                                      *)
(***************************************************************************)
ErrorTag(i) == "Error parsing line " \o NatToString(i + 1) \o ":"

ErrorTaggedAt(i) == \E k \in Indices(errors) : StartsWith(errors[k], ErrorTag(i))

(* The lines parse reads as multi-import statements naming a package. *)
NamesPackage(i) ==
  LET line == Trim(Line(i))
      m == Exec(MULTI_IMPORT_REGEX, line, 0)
  IN  /\ ~Exec(FROM_IMPORT_REGEX, line, 0).ok
      /\ m.ok
      /\ \E k \in Indices(Split(m.caps[1][1], ",")) :
           LET p == Trim(Split(m.caps[1][1], ",")[k])
           IN  p # "" /\ ~IsLocalPath(p)

C6_ThrowIsCaught ==
  (pc = "py" /\ errors' # errors) =>
    /\ Len(errors') = Len(errors) + 1
    /\ SubSeq(errors', 1, Len(errors)) = errors
    /\ StartsWith(errors'[Len(errors')], ErrorTag(lineIndex))
    /\ imports' = imports
    /\ lineIndex' = lineIndex + 1
    /\ pc' = "py"

C6_LaterLinesAreExtracted ==
  (IsPython /\ pc = "done") =>
    /\ result = ParseResult(imports, errors)
    /\ \A n \in Indices(scanned) :
         LET i == scanned[n]
         IN  /\ ErrorTaggedAt(i) => \A k \in Indices(imports) : imports[k].range.sl # i
             /\ (NamesPackage(i) /\ ~ErrorTaggedAt(i)) =>
                  \E k \in Indices(imports) : imports[k].range.sl = i

C6_StatementFailureIsLocal == [][C6_ThrowIsCaught]_vars /\ [](C6_LaterLinesAreExtracted)

C6_Witness ==
  /\ IsPython /\ pc = "done"
  /\ text = "import a as x, b\nfrom m import a, b as c"
  /\ Len(result.errors) = 1
  /\ StartsWith(result.errors[1], "Error parsing line 1:")
  /\ Len(result.imports) = 1
  /\ result.imports[1].packageName = "m"

(***************************************************************************)
(* C7: a from-import whose first line holds `(` and no `)` gives exactly   *)
(* one record; its statement is the first line and the consumed            *)
(* continuation lines joined by newlines, its range runs from column 0 of  *)
(* the `from` line to the end of the last consumed line, and the scan      *)
(* resumes on the line after it: no consumed line is scanned as a          *)
(* statement of its own.                                                   *)
(* A from-import of a relative module gives no record and consumes no      *)
(* line (C7 as amended: a from-import of a module that is not relative).   *)
(***************************************************************************)
OpensParenthesis(i) ==
  /\ Exec(FROM_IMPORT_REGEX, Trim(Line(i)), 0).ok
  /\ Includes(Line(i), "(")
  /\ ~Includes(Line(i), ")")

OfPackage(i) == ~IsLocalPath(Exec(FROM_IMPORT_REGEX, Trim(Line(i)), 0).caps[1][1])

RecordsStartingAt(i) == {k \in Indices(imports) : imports[k].range.sl = i}

SpansConsumedLines(r) ==
  /\ r.range.sc = 0
  /\ r.range.el >= r.range.sl
  /\ r.range.el < Len(lines)
  /\ r.range.ec = Len(Line(r.range.el))
  /\ r.importStatement = Join(SubSeq(lines, r.range.sl + 1, r.range.el + 1), "\n")
  /\ lineIndex > r.range.el
  /\ \A n \in Indices(scanned) : ~(scanned[n] > r.range.sl /\ scanned[n] <= r.range.el)
  /\ \A n \in Indices(scanned) :
       (scanned[n] = r.range.sl /\ n < Len(scanned)) => scanned[n + 1] = r.range.el + 1

C7_MultiLineFromImport ==
  (IsPython /\ pc \in {"py", "done"}) =>
    \A n \in Indices(scanned) :
      OpensParenthesis(scanned[n]) =>
        /\ Cardinality(RecordsStartingAt(scanned[n])) = 1
        /\ \A k \in RecordsStartingAt(scanned[n]) : SpansConsumedLines(imports[k])

C7_MultiLineFromImportOfPackage ==
  (IsPython /\ pc \in {"py", "done"}) =>
    \A n \in Indices(scanned) :
      (OpensParenthesis(scanned[n]) /\ OfPackage(scanned[n])) =>
        /\ Cardinality(RecordsStartingAt(scanned[n])) = 1
        /\ \A k \in RecordsStartingAt(scanned[n]) : SpansConsumedLines(imports[k])

C7_Witness ==
  /\ IsPython /\ pc = "py"
  /\ text = "from m import (\n  a,\n  b as c)\nimport os"
  /\ scanned = <<0, 3>>
  /\ Len(imports) = 2
  /\ imports[1].importStatement = "from m import (\n  a,\n  b as c)"
  /\ imports[1].range = createRange(0, 0, 2, 9)

(***************************************************************************)
(* C8: in the namedBindings of a record, a binding written `name as alias` *)
(* is represented by its alias, not by the imported name: `from X import   *)
(* a, b as c` and `{ a, b as c }` both give [a, c].                        *)
(* The code keeps the imported name: they give [a, b] (C8 as amended).     *)
(***************************************************************************)
(* The binding list of a record's statement, as written: the text after    *)
(* `import` of a Python from-import (continuation lines joined by a space, *)
(* parentheses dropped), the text between the braces of a JS/TS one.       *)
PyBindingText(r) ==
  LET stmt == Split(r.importStatement, "\n")
      rest == [k \in 1..(Len(stmt) - 1) |-> " " \o Trim(stmt[k + 1])]
  IN  RemoveChars(Exec(FROM_IMPORT_REGEX, Trim(stmt[1]), 0).caps[2][1] \o Join(rest, ""),
                  {"(", ")"})

JsBindingText(r) ==
  Substring(r.importStatement, IndexOf(r.importStatement, "{") + 1,
            IndexOf(r.importStatement, "}"))

BindingItems(r) ==
  Split(IF r.language = "python" THEN PyBindingText(r) ELSE JsBindingText(r), ",")

AliasOf(item) ==
  LET m == Exec(AsSeparator, Trim(item), 0)
  IN  IF m.ok THEN Trim(Substring(Trim(item), m.end, Len(Trim(item)))) ELSE Trim(item)

ImportedNameOf(item) ==
  LET m == Exec(AsSeparator, Trim(item), 0)
  IN  IF m.ok THEN Trim(Substring(Trim(item), 0, m.index)) ELSE Trim(item)

IsBinding(name) == name # "" /\ name # "*"

BindingsBy(r, NameOf(_)) ==
  SelectSeq([k \in Indices(BindingItems(r)) |-> NameOf(BindingItems(r)[k])], IsBinding)

C9_FirstOccurrenceWins ==
  (IsJsTs /\ pc = "done") =>
    LET kept == result.imports
    IN  /\ \A i, j \in Indices(kept) : i # j => kept[i].packageName # kept[j].packageName
        /\ \A k \in Indices(imports) :
             \E i \in Indices(kept) : kept[i].packageName = imports[k].packageName
        /\ \A i \in Indices(kept) :
             /\ \E k \in Indices(imports) : imports[k].packageName = kept[i].packageName
             /\ kept[i] = imports[FirstIndexOfName(imports, kept[i].packageName)]
        /\ \A i, j \in Indices(kept) :
             i < j => FirstIndexOfName(imports, kept[i].packageName)
                        < FirstIndexOfName(imports, kept[j].packageName)

C9_Witness ==
  /\ IsJsTs /\ pc = "done"
  /\ text = "export * from 'l'\nimport {a, b as c} from 'l/m'"
  /\ Len(imports) = 2
  /\ Len(result.imports) = 1
  /\ result.imports[1].importStatement = "import {a, b as c} from 'l/m'"

(***************************************************************************)
(* C10: trackUsages returns one UsageRecord for exactly the supplied       *)
(* imports that have a surviving usage location, in the order the imports  *)
(* were supplied; no UsageRecord has an empty usageLocations list.         *)
(***************************************************************************)
HasUsage(importInfo) == Len(findUsagesForImport(importInfo)) > 0

C10_UsageRecordPerUsedImport ==
  pc = "tracked" =>
    LET used == SelectSeq(result.imports, HasUsage)
    IN  /\ Len(usages.usages) = Len(used)
        /\ \A k \in Indices(usages.usages) :
             /\ usages.usages[k].importInfo = used[k]
             /\ usages.usages[k].usageLocations # <<>>
             /\ usages.usages[k].usageLocations = findUsagesForImport(used[k])

C10_Witness ==
  /\ pc = "tracked"
  /\ text = "import os, b\nos.f(c)"
  /\ errors = <<>>
  /\ Len(result.imports) = 2
  /\ Len(usages.usages) = 1
  /\ usages.usages[1].importInfo.packageName = "os"
  /\ usages.totalUsageCount = 1

(***************************************************************************)
(* Vocabulary of the usage properties: the UsageLocations reported for an  *)
(* import, and the text a single-line range covers.                        *)
(***************************************************************************)
LocsOf(importInfo) ==
  LET S == {i \in Indices(usages.usages) : usages.usages[i].importInfo = importInfo}
  IN  IF S = {} THEN <<>> ELSE usages.usages[CHOOSE i \in S : TRUE].usageLocations

TextAt(range) == Substring(Line(range.sl), range.sc, range.ec)

OffsetAt(l, c) == Len(Join(SubSeq(lines, 1, l), "\n")) + (IF l > 0 THEN 1 ELSE 0) + c

FromImportRecords ==
  {k \in Indices(result.imports) :
     /\ IsDefined(result.imports[k].namedImports)
     /\ result.imports[k].namedImports[1] # <<>>}

Range(seq) == {seq[k] : k \in Indices(seq)}

(***************************************************************************)
(* C11: for a record of a from-import with non-empty namedImports, the     *)
(* identifiers searched are all its bound local names (the alias where one *)
(* is given, the imported name otherwise), and every occurrence of such a  *)
(* name followed by `(` on a later line is reported for that import.       *)
(* The code searches the alias of the first binding alone when the first   *)
(* binding has one.                                                        *)
(***************************************************************************)
CallLinesOf(name) ==
  {n \in 1..(Len(lines) - 1) : StartsWith(Line(n), name \o "(")}

C11_EveryBoundNameIsSearched ==
  pc = "tracked" =>
    \A k \in FromImportRecords :
      LET r == result.imports[k]
          bound == BindingsBy(r, AliasOf)
      IN  /\ Range(getIdentifiersFromImport(r)) = Range(bound)
          /\ \A name \in Range(bound) : \A n \in CallLinesOf(name) :
               \E j \in Indices(LocsOf(r)) :
                 /\ LocsOf(r)[j].identifier = name
                 /\ LocsOf(r)[j].range = createRange(n, 0, n, Len(name))

(***************************************************************************)
(* C12: for an aliased simple import `import P as A` the only identifier   *)
(* searched is A; every UsageLocation of the import has the identifier A   *)
(* and a range covering exactly the text A; a later line `A.attr(x)` has   *)
(* exactly one UsageLocation, at columns 0 to Len(A), of kind attribute    *)
(* access; a line that holds P or its last dotted segment but not A has    *)
(* none.                                                                   *)
(***************************************************************************)
AliasedSimpleImport ==
  <<Bol, Lit("import"), Plus(WhiteSpace)>> \o Group(1, <<Plus(WordDot)>>)
  \o <<Plus(WhiteSpace), Lit("as"), Plus(WhiteSpace)>> \o Group(2, <<Plus(WordChars)>>)
  \o <<Star(WhiteSpace), Eos>>

LocsOnLine(importInfo, n) ==
  {j \in Indices(LocsOf(importInfo)) : LocsOf(importInfo)[j].range.sl = n}

C12_AliasIsTheOnlyIdentifier ==
  pc = "tracked" =>
    \A k \in Indices(result.imports) :
      LET r == result.imports[k]
          m == Exec(AliasedSimpleImport, r.importStatement, 0)
      IN  m.ok =>
            LET P == m.caps[1][1]
                A == m.caps[2][1]
            IN  /\ getIdentifiersFromImport(r) = <<A>>
                /\ \A j \in Indices(LocsOf(r)) :
                     /\ LocsOf(r)[j].identifier = A
                     /\ LocsOf(r)[j].range.sl = LocsOf(r)[j].range.el
                     /\ TextAt(LocsOf(r)[j].range) = A
                /\ \A n \in 1..(Len(lines) - 1) :
                     /\ StartsWith(Line(n), A \o ".") =>
                          /\ Cardinality(LocsOnLine(r, n)) = 1
                          /\ \A j \in LocsOnLine(r, n) :
                               /\ LocsOf(r)[j].range = createRange(n, 0, n, Len(A))
                               /\ LocsOf(r)[j].usageType = "attribute_access"
                     /\ ~Includes(Line(n), A) => LocsOnLine(r, n) = {}

C12_Witness ==
  /\ pc = "tracked"
  /\ text = "import p.q as A\nA.f(x)\nq.f(x)"
  /\ errors = <<>>
  /\ Len(usages.usages) = 1
  /\ usages.usages[1].importInfo.packageName = "p.q"
  /\ usages.usages[1].usageLocations =
       <<[range |-> createRange(1, 0, 1, 1), identifier |-> "A",
          usageType |-> "attribute_access"]>>

(***************************************************************************)
(* C13: no UsageLocation reported for an import has a range contained in   *)
(* the range of that import's own statement, on whichever of its lines:    *)
(* an occurrence of a bound identifier in its own declaration is not a     *)
(* usage.                                                                  *)
(***************************************************************************)
C13_NoUsageInsideOwnStatement ==
  pc = "tracked" =>
    \A i \in Indices(usages.usages) :
      \A j \in Indices(usages.usages[i].usageLocations) :
        LET stmt == usages.usages[i].importInfo.range
            loc == usages.usages[i].usageLocations[j].range
        IN  ~RangeContains(stmt, loc)

C13_Witness ==
  /\ pc = "tracked"
  /\ text = "from m import (\n  a,\n  b as c)\nc(1)"
  /\ errors = <<>>
  /\ Len(ExecAll(UsagePattern("c"), text, 0)) = 2
  /\ Len(usages.usages) = 1
  /\ usages.usages[1].importInfo.range = createRange(0, 0, 2, 9)
  /\ Len(usages.usages[1].usageLocations) = 1
  /\ usages.usages[1].usageLocations[1].range = createRange(3, 0, 3, 1)

(***************************************************************************)
(* C14: a match of a bound identifier that lies outside its own statement  *)
(* and outside any string literal is discarded exactly when a `#` that is  *)
(* outside any string literal occurs earlier on the same line; a `#`       *)
(* inside a string literal earlier on the line does not discard it.        *)
(* The code takes the first `#` of the line wherever it stands.            *)
(***************************************************************************)
(* The lexical state before column upto of a line: the quote of the string *)
(* literal that is open there ("" for none), and whether a comment began.  *)
RECURSIVE LexicalState(_, _, _, _)
LexicalState(line, i, upto, st) ==
  IF i >= upto \/ st.comment THEN st
  ELSE LET ch == CharAt(line, i)
       IN  LexicalState(line, i + 1, upto,
             IF st.quote = ""
             THEN IF ch \in Quotes THEN [quote |-> ch, comment |-> FALSE]
                  ELSE IF ch = "#" THEN [quote |-> "", comment |-> TRUE]
                  ELSE st
             ELSE IF ch = st.quote THEN [quote |-> "", comment |-> FALSE]
                  ELSE st)

LexicalStateAt(position) ==
  LET p == positionAt(text, position)
  IN  LexicalState(Line(p.line), 0, p.character, [quote |-> "", comment |-> FALSE])

IsReported(importInfo, identifier, index) ==
  \E j \in Indices(LocsOf(importInfo)) :
    /\ LocsOf(importInfo)[j].identifier = identifier
    /\ LocsOf(importInfo)[j].range = OffsetRange(text, index, index + Len(identifier))

C14_CommentOnlyAfterHashOutsideString ==
  pc = "tracked" =>
    \A k \in Indices(result.imports) :
      LET r == result.imports[k]
      IN  \A identifier \in Range(getIdentifiersFromImport(r)) :
            LET matches == ExecAll(UsagePattern(identifier), text, 0)
            IN  \A n \in Indices(matches) :
                  LET index == matches[n].index
                      range == OffsetRange(text, index, index + Len(identifier))
                  IN  (~RangeContains(r.range, range) /\ LexicalStateAt(index).quote = "")
                        => (IsReported(r, identifier, index) <=> ~LexicalStateAt(index).comment)

FollowingCharacter(range) ==
  LET after == OffsetAt(range.el, range.ec)
  IN  CharAt(TrimStart(Substring(text, after, after + NextCharsLength)), 0)

IsUpperCaseLetter(c) == Len(c) = 1 /\ Includes(UpperCaseLetters, c)

ExpectedUsageType(loc) ==
  IF FollowingCharacter(loc.range) = "("
  THEN IF IsUpperCaseLetter(CharAt(loc.identifier, 0))
       THEN "class_instantiation" ELSE "function_call"
  ELSE IF FollowingCharacter(loc.range) = "." THEN "attribute_access"
  ELSE "reference"

C16_UsageTypeFollowsTheIdentifier ==
  pc = "tracked" =>
    \A i \in Indices(usages.usages) :
      \A j \in Indices(usages.usages[i].usageLocations) :
        usages.usages[i].usageLocations[j].usageType
          = ExpectedUsageType(usages.usages[i].usageLocations[j])

(***************************************************************************)
(* C17: getTopLevelPackage is idempotent: resolving the output of the      *)
(* resolver again gives the same string, for every module path.            *)
(***************************************************************************)
C17_ResolverIsIdempotent ==
  [][(IsDefined(resolved) /\ IsDefined(resolved')) => resolved' = resolved]_vars

C17_Witness ==
  /\ pc = "resolved again"
  /\ queryPath = "@o/a/b.c"
  /\ resolved = Some("@o/a")

(***************************************************************************)
(* Vocabulary of the migration properties: the step marks the entry of     *)
(* index k of the history as undone.                                       *)
(***************************************************************************)
IsUndoneByStep(k) ==
  /\ ~history[k].undone
  /\ \E n \in 1..Len(history') : history'[n].id = history[k].id /\ history'[n].undone

(***************************************************************************)
(* C18: the entry that Undo Last Migration marks as undone is the most     *)
(* recently applied of all the history entries not yet undone (none before *)
(* it in the history, which is kept most recent first, is still to be      *)
(* undone), and its file then holds the entry's originalContent.           *)
(* The code takes the most recent entry of the file of the active editor.  *)
(***************************************************************************)
C18_UndoRevertsMostRecent ==
  [][\A k \in 1..Len(history) :
       IsUndoneByStep(k) =>
         /\ \A j \in 1..(k - 1) : history[j].undone
         /\ docs'[history[k].fileUri] = history[k].originalContent]_vars

(***************************************************************************)
(* C19: every step that applies a migration to a document, on `Apply       *)
(* Changes` or on `Accept Migration`, puts at the head of the history an   *)
(* entry for that document, not undone, whose originalContent is the text  *)
(* the document had before the step.                                       *)
(* The code records nothing on `Accept Migration`.                         *)
(***************************************************************************)
AppliesMigration ==
  /\ mig.stage = "prompt"
  /\ mig'.choice \in {"Apply Changes", "Accept Migration"}
  /\ docs'[mig.fileUri] = ReplaceRange(docs[mig.fileUri], mig.range, mig.migratedCode)
  /\ docs'[mig.fileUri] # docs[mig.fileUri]

C19_AppliedMigrationIsRecorded ==
  [][AppliesMigration =>
       /\ Len(history') > 0
       /\ history'[1].fileUri = mig.fileUri
       /\ history'[1].originalContent = docs[mig.fileUri]
       /\ ~history'[1].undone
       /\ \A k \in 1..Len(history) : history[k].id # history'[1].id]_vars

(***************************************************************************)
(* C20: a step of a migration flow changes a document or the history only  *)
(* from the prompt shown after the diff was opened, and only on the answer *)
(* `Apply Changes` or `Accept Migration`; on any other answer, or none,    *)
(* the documents and the history are unchanged.                            *)
(***************************************************************************)
IsMigrationFlowStep == mig' # mig

C20_NoEditBeforeDiffAndChoice ==
  [][IsMigrationFlowStep =>
       /\ (docs' # docs \/ history' # history) =>
            /\ mig.stage = "prompt"
            /\ mig.diffOpened
            /\ mig'.choice \in {"Apply Changes", "Accept Migration"}
       /\ mig'.stage = "prompt" => mig'.diffOpened
       /\ (mig.stage = "prompt" /\ mig'.choice \in {"Cancel", "Reject", "dismissed"}) =>
            (docs' = docs /\ history' = history)]_vars

C20_Witness ==
  /\ mig.stage = "idle"
  /\ mig.choice = "dismissed"
  /\ history = <<>>
  /\ docs = [fileUri \in FileUris |->
               IF fileUri = "file:///a.py" THEN "import old\nold.f()" ELSE "import old"]

(***************************************************************************)
(* C24: a from-import whose content has an unbalanced `(` consumes the     *)
(* following lines until the parentheses of the merged content balance or  *)
(* the file ends: its record ends at the first line at which the merged    *)
(* content has as many `)` as `(`, at the last line of the file when there *)
(* is none.  The code tests for the presence of a `)` instead: in the      *)
(* first line's content to decide whether to continue at all, and in each  *)
(* line to decide where to stop.                                           *)
(***************************************************************************)
FromContentAt(i) == Exec(FROM_IMPORT_REGEX, Trim(Line(i)), 0).caps[2][1]

RECURSIVE MergedContent(_, _)
MergedContent(startLine, endLine) ==
  IF endLine = startLine THEN FromContentAt(startLine)
  ELSE MergedContent(startLine, endLine - 1) \o " " \o Trim(Line(endLine))

ParenthesesBalance(s) == CountOccurrences(s, "(") = CountOccurrences(s, ")")

BalancingLine(startLine) ==
  LET S == {e \in startLine..(Len(lines) - 1) :
              ParenthesesBalance(MergedContent(startLine, e))}
  IN  IF S = {} THEN Len(lines) - 1 ELSE CHOOSE e \in S : \A f \in S : e <= f

IsLoopIteration == scanned' # scanned

StatementsShareNoLine(imps) ==
  \A j, k \in Indices(imps) :
    imps[j].range.sl < imps[k].range.sl => imps[j].range.el < imps[k].range.sl

C29_LineCursorStrictlyIncreases ==
  [][/\ IsLoopIteration => lineIndex' > lineIndex
     /\ Len(scanned') <= Len(lines')
     /\ StatementsShareNoLine(imports')]_vars

(* C29 witness: a parse that has run through a from-import continued over  *)
(* a second line and through the exception path of a later line.           *)
C29_Witness ==
  /\ pc = "done"
  /\ errors # <<>>
  /\ \E k \in Indices(result.imports) :
       result.imports[k].range.el > result.imports[k].range.sl
  /\ Len(scanned) = 2
  /\ Len(lines) = 3

(***************************************************************************)
(* C25: the identifier searched for a record of a Python multi-import line *)
(* is derived from the record's own package: the alias written after that  *)
(* package if there is one, the last dotted segment of its packageName     *)
(* otherwise.  For `import a as x, b` the record of b is searched as b.    *)
(* The code takes the first alias of the statement for every record of the *)
(* line.                                                                   *)
(***************************************************************************)
MultiImportRecords ==
  {k \in Indices(result.imports) :
     /\ ~IsDefined(result.imports[k].namedImports)
     /\ Includes(result.imports[k].importStatement, ",")}

OwnItems(r) ==
  SelectSeq(Split(Exec(MULTI_IMPORT_REGEX, Trim(r.importStatement), 0).caps[1][1], ","),
            LAMBDA item : MultiPackageName(item) = r.packageName)

OwnIdentifier(r) ==
  LET item == Trim(OwnItems(r)[1])
      parts == Split(r.packageName, ".")
  IN  IF AliasOf(item) # item THEN AliasOf(item) ELSE parts[Len(parts)]

C25_IdentifierOfOwnPackage ==
  (IsPython /\ Parsed) =>
    \A k \in MultiImportRecords :
      getIdentifiersFromImport(result.imports[k]) = <<OwnIdentifier(result.imports[k])>>

(***************************************************************************)
(* C26: when a package is declared more than once in a JS/TS file, in      *)
(* whatever shapes, the record retained by deduplication is the            *)
(* declaration that comes first in the file text: no collected record of   *)
(* the same package begins before the retained one.                        *)
(* The code retains the first record in pass order (ES imports, requires,  *)
(* dynamic imports, re-exports), which an earlier `require` line does not  *)
(* precede.                                                                *)
(***************************************************************************)
BeginsBefore(r1, r2) == PositionLt(r1.range.sl, r1.range.sc, r2.range.sl, r2.range.sc)

C26_RetainedIsFirstInFileText ==
  (IsJsTs /\ pc = "done") =>
    \A k \in Indices(result.imports) : \A j \in Indices(imports) :
      imports[j].packageName = result.imports[k].packageName
        => ~BeginsBefore(imports[j], result.imports[k])

(***************************************************************************)
(* C27: an ES module import with a namespace binding and a path that is    *)
(* not relative, `import * as ns from 'pkg'`, gives a record of the        *)
(* canonical package with isDefaultImport true and isRequire false; and    *)
(* isRequire is true only for records whose statement is of the require    *)
(* shape.                                                                  *)
(* ES6_IMPORT_REGEX has no alternative for `* as ns`: the statement gives  *)
(* no record at all.                                                       *)
(***************************************************************************)
NamespaceImportShape ==
  <<Lit("import"), Plus(WhiteSpace), Lit("*"), Plus(WhiteSpace), Lit("as"),
    Plus(WhiteSpace), Plus(WordChars), Plus(WhiteSpace), Lit("from"),
    Plus(WhiteSpace), One(Quotes)>>
    \o Group(1, <<PlusNot(Quotes)>>) \o <<One(Quotes)>>

NamespaceImports == ExecAll(NamespaceImportShape, text, 0)

C27_NamespaceImportIsDefaultBinding ==
  (IsJsTs /\ pc = "done") =>
    /\ \A n \in Indices(NamespaceImports) :
         LET path == NamespaceImports[n].caps[1][1]
         IN  ~isRelativeImport(path) =>
               \E k \in Indices(result.imports) :
                 /\ result.imports[k].packageName = getTopLevelPackage(path)
                 /\ result.imports[k].isDefaultImport = Some(TRUE)
                 /\ result.imports[k].isRequire = Some(FALSE)
    /\ \A k \in Indices(result.imports) :
         result.imports[k].isRequire = Some(TRUE)
           => Exec(REQUIRE_REGEX, result.imports[k].importStatement, 0).ok

(***************************************************************************)
(* C22: whatever is recorded, undone and cleared, the migration history    *)
(* holds at most maxMigrationHistorySize entries, most recently recorded   *)
(* first; a step that records an entry puts it at the head and keeps the   *)
(* entries that were there in their order, less the oldest when the        *)
(* history was full.                                                       *)
(***************************************************************************)
IsRecordedByStep ==
  /\ history' # <<>>
  /\ \A k \in 1..Len(history) : history[k].id # history'[1].id

C22_HistoryIsBoundedMostRecentFirst ==
  [][/\ Len(history') <= MaxMigrationHistorySize
     /\ \A j, k \in 1..Len(history') :
          j < k => history'[j].appliedAt > history'[k].appliedAt
     /\ IsRecordedByStep =>
          Tail(history') =
            SubSeq(history, 1, Min2(Len(history), MaxMigrationHistorySize - 1))]_vars

(* C22 witness: a full history from which recording has dropped the oldest *)
(* entry, and whose oldest remaining entry has been undone.                *)
C22_Witness ==
  /\ Len(history) = MaxMigrationHistorySize
  /\ nextId = MaxMigrationHistorySize + 1
  /\ history[1].id = nextId
  /\ \A k \in 1..Len(history) : history[k].id # 1
  /\ history[Len(history)].undone

(***************************************************************************)
(* C28: in executeMigration, for a package without a custom replacement    *)
(* whose confidence is below the threshold, generateMigration (and with it *)
(* the diff and the edit, which the flow reaches only through it) is       *)
(* reached only with showLowConfidenceWarnings on and the answer           *)
(* `Yes, Migrate`; with the warnings off, or on any other answer, the flow *)
(* ends with no code generated, no diff opened and no document or history  *)
(* changed.                                                                *)
(***************************************************************************)
IsLowConfidence(m) == m.customReplacement = "" /\ m.confidence < ConfidenceThreshold

C28_LowConfidenceNeedsYesMigrate ==
  [][IsMigrationFlowStep =>
       /\ (mig'.kind = "command" /\ mig'.stage = "generated") => mig.stage = "checked"
       /\ (mig'.kind = "command" /\ mig'.diffOpened) => mig.stage \in {"generated", "prompt"}
       /\ (mig'.stage = "low confidence") =>
            (IsLowConfidence(mig') /\ mig'.showLowConfidenceWarnings)
       /\ (mig'.stage = "checked" /\ IsLowConfidence(mig')) =>
            /\ mig.stage = "low confidence"
            /\ mig'.showLowConfidenceWarnings
            /\ mig'.choice = "Yes, Migrate"
       /\ (mig.stage = "low confidence" /\ mig'.choice # "Yes, Migrate") =>
            /\ mig'.stage = "idle"
            /\ ~mig'.diffOpened
            /\ docs' = docs
            /\ history' = history]_vars

(* C28 witness: the flow of a package of low confidence that has passed    *)
(* the check on the answer `Yes, Migrate` and is about to generate code.   *)
C28_Witness ==
  /\ mig.stage = "checked"
  /\ mig.kind = "command"
  /\ IsLowConfidence(mig)
  /\ mig.showLowConfidenceWarnings
  /\ mig.choice = "Yes, Migrate"

(***************************************************************************)
(* C30: an entry of the migration history is undone at most once.  The     *)
(* undone flag of an entry never goes back to false; an entry is marked    *)
(* undone only in a step that has restored its originalContent;            *)
(* undoMigration called with an id that is not in the history, or with the *)
(* id of an undone entry, returns false and changes no document and no     *)
(* entry; and an undone entry is neither returned by getLastMigration nor  *)
(* counted by hasUndoableMigrations and getUndoableMigrationCount.         *)
(***************************************************************************)
IsNotUndoable(migrationId) ==
  \A k \in 1..Len(history) : history[k].id = migrationId => history[k].undone

NotUndone(fileUri) ==
  {k \in 1..Len(history) :
     ~history[k].undone /\ (fileUri # "" => history[k].fileUri = fileUri)}

IsCheckStep ==
  /\ scan.stage = "next"
  /\ scan.queue # <<>>
  /\ (scan'.queue # scan.queue \/ scan'.stage # scan.stage)

(* A step that ends a check by the answer of the search or of the analysis. *)
IsCompletionStep == scan.stage \in {"searching", "analysing"} /\ scan'.stage = "next"

CheckedKey == getCacheKey(Head(scan.queue).packageName, Head(scan.queue).language)

CheckedPackage == Head(scan.queue).packageName

(* The entry of the key is the answer info, stored at the time of the step. *)
StoresAnswer(key, info) ==
  /\ key \in DOMAIN scan'.cache
  /\ scan'.cache[key].timestamp = scan.now
  /\ scan'.cache[key].data.isDeprecated = info.isDeprecated
  /\ scan'.cache[key].data.confidence = info.confidence

(* The check is answered by the valid entry of the key: the data of the    *)
(* entry is the result, and neither the search nor the analysis is begun.  *)
AnsweredFromCache(key) ==
  /\ scan'.stage = "next"
  /\ scan'.queue = Tail(scan.queue)
  /\ scan'.cache = scan.cache
  /\ CheckedPackage \in DOMAIN scan'.results
  /\ scan'.results[CheckedPackage] = scan.cache[key].data

HasValidEntry(key) == key \in DOMAIN scan.cache /\ isEntryValid(scan.cache[key])

(* C21 as stated: every check that completes stores its result, and every *)
(* check of a pair whose stored result is younger than the TTL returns the *)
(* stored result without the web search and without the analysis.          *)
C21_EveryCompletedCheckIsStored ==
  [][/\ IsCompletionStep => StoresAnswer(CheckedKey, scan'.results[CheckedPackage])
     /\ IsCheckStep /\ HasValidEntry(CheckedKey) => AnsweredFromCache(CheckedKey)]_vars

(* C21: a check that completes with no search results or with an analysis *)
(* of confidence above 0 stores its result at the time of completion; one  *)
(* that completes with confidence 0 (a failed analysis or an exception)    *)
(* leaves the cache as it was.  A stored entry stays as stored until the   *)
(* cache is cleared or a later check of its pair completes.  A check of a  *)
(* pair whose package is not ignored and whose entry is younger than the   *)
(* TTL returns the data of the entry without beginning the web search or   *)
(* the analysis; a check of any other pair of a package not ignored begins *)
(* the web search.                                                         *)
C21_SuccessfulCheckIsStoredAndReused ==
  [][/\ IsCompletionStep /\ scan'.results[CheckedPackage].confidence > 0
          => StoresAnswer(CheckedKey, scan'.results[CheckedPackage])
     /\ IsCompletionStep /\ scan'.results[CheckedPackage].confidence = 0
          => scan'.cache = scan.cache
     /\ \A key \in DOMAIN scan.cache :
          \/ scan'.cache = <<>>
          \/ key \in DOMAIN scan'.cache /\ scan'.cache[key] = scan.cache[key]
          \/ IsCompletionStep /\ key = CheckedKey
     /\ IsCheckStep /\ CheckedPackage \notin scan.ignoredPackages
          => IF HasValidEntry(CheckedKey)
             THEN AnsweredFromCache(CheckedKey)
             ELSE scan'.stage = "searching" /\ scan'.results = scan.results]_vars

(* C21 witness: a scan has been answered from an entry stored in an        *)
(* earlier month, the entry saying that the package is deprecated.         *)
C21_Witness ==
  /\ scan.stage = "next"
  /\ \E p \in DOMAIN scan.results :
       /\ "cachedAt" \in DOMAIN scan.results[p]
       /\ scan.results[p].cachedAt < scan.now
       /\ scan.results[p].isDeprecated

(* C23: the check of an import whose package is in darwin.ignoredPackages  *)
(* goes on to the next import with the map of results, the cache and the   *)
(* stage as they were: no entry of the cache is read or written, no web    *)
(* search and no analysis is begun.  No step gives the map of results an   *)
(* entry for a package that is ignored at that step, and the diagnostics   *)
(* set at the end of the scan are for imports with a deprecated entry in   *)
(* the map.                                                                *)
C23_IgnoredPackageIsNeverChecked ==
  [][/\ IsCheckStep /\ CheckedPackage \in scan.ignoredPackages
          => /\ scan'.stage = "next"
             /\ scan'.queue = Tail(scan.queue)
             /\ scan'.results = scan.results
             /\ scan'.cache = scan.cache
     /\ \A p \in DOMAIN scan'.results :
          p \notin DOMAIN scan.results \/ scan'.results[p] # scan.results[p]
            => /\ p \notin scan.ignoredPackages \/ IsCompletionStep
               /\ p = CheckedPackage
     /\ scan'.diagnostics # scan.diagnostics
          => scan'.diagnostics = {p \in DOMAIN scan.results : scan.results[p].isDeprecated}]_vars

(* C23 witness: a scan has ended with no diagnostic for an import whose    *)
(* package is ignored, although the cache holds an entry younger than the  *)
(* TTL that says the package is deprecated.                                *)
C23_Witness ==
  /\ scan.stage = "idle"
  /\ \E n \in 1..Len(scan.imports) :
       LET key == getCacheKey(scan.imports[n].packageName, scan.imports[n].language)
       IN  /\ scan.imports[n].packageName \in scan.ignoredPackages
           /\ HasValidEntry(key)
           /\ scan.cache[key].data.isDeprecated
           /\ scan.imports[n].packageName \notin scan.diagnostics
====
